---- MODULE Spec2Model ----
(***************************************************************************)
(* Model of the polyanalyst6api client.  One call runs per behaviour; op   *)
(* names it:                                                               *)
(*   - the wait loops of Project.execute, execute_to, export, load,        *)
(*     Parameters.set and wait_for_completion, and the id taken from the   *)
(*     Location header of the start response (project.py);                 *)
(*   - the node arguments of Project.execute, its per-node wait when the   *)
(*     start response names no wave, and the options of Project.export;    *)
(*   - API construction, login and logout (api.py);                        *)
(*   - Project._find_node and Project.unload (project.py);                 *)
(*   - the retry_on_invalid_guid wrapper of DataSet (project.py, api.py);  *)
(*   - API._handle_response (api.py, polyanalyst.py);                      *)
(*   - the resumable upload of Drive.upload_file (drive.py) and            *)
(*     RemoteFileSystem.upload_file (api.py), and the walk of Drive.upload.*)
(* The server is the environment: the replies of the status endpoints are  *)
(* a script drawn in Init, one reply per status fetch; the replies of the  *)
(* other requests are drawn when the request is made.                      *)
(***************************************************************************)
EXTENDS Integers, Sequences, FiniteSets, TLC

(* ---------------- bounds ---------------- *)
\* number of status fetches one call may issue in the model
MaxPolls == 3
\* largest value of the ignore_first_n_pabusy argument
MaxTolerance == 2
\* largest operation identifier of a start response (one decimal digit)
MaxWaveId == 1
\* largest size of an uploaded file, in bytes
MaxFileSize == 2
\* largest number of nodes in a project's node list
MaxNodes == 2
\* number of login and logout calls made on one API object
MaxCalls == 3

(* ---------------- Python values ---------------- *)
\* a str is a tuple of characters, None and bool are tagged apart from it
PyNone == <<"NoneType">>
PyStr(chars) == <<"str", chars>>
PyBool(b) == <<"bool", b>>
PyInt(n) == <<"int", n>>
IsStr(v) == v[1] = "str"
PyDict(d) == <<"dict", d>>
PyList(items) == <<"list", items>>

\* the decimal text of a one-digit number, as it stands in a query string
Digits == <<"0", "1", "2", "3", "4", "5", "6", "7", "8", "9">>
DecimalStr(n) == <<Digits[n + 1]>>

\* a dict is a set of <<key, value>> pairs with distinct keys
\* dict.get(key): the value, or None when the key is absent
dict_get(d, key) ==
    IF \E p \in d : p[1] = key
    THEN (CHOOSE p \in d : p[1] = key)[2]
    ELSE PyNone

\* bool(x) of a JSON value
truthy(v) ==
    CASE v[1] = "bool" -> v[2]
      [] v[1] = "int" -> v[2] # 0
      [] v[1] = "str" -> Len(v[2]) > 0
      [] OTHER -> FALSE

\* str.__contains__: s occurs in t as a contiguous run of characters
IsSubstring(s, t) ==
    \E i \in 0..(Len(t) - Len(s)) : SubSeq(t, i + 1, i + Len(s)) = s

(* ---------------- urllib.parse and int() ---------------- *)
\* position of the first ch in s, 0 when s has none
IndexOf(s, ch) ==
    IF \E i \in 1..Len(s) : s[i] = ch
    THEN CHOOSE i \in 1..Len(s) : s[i] = ch /\ \A j \in 1..(i - 1) : s[j] # ch
    ELSE 0

\* str.split(sep)
RECURSIVE Split(_, _)
Split(s, sep) ==
    LET i == IndexOf(s, sep) IN
    IF i = 0 THEN <<s>>
    ELSE <<SubSeq(s, 1, i - 1)>> \o Split(SubSeq(s, i + 1, Len(s)), sep)

\* urlparse(url).query: what follows the first '?', the fragment cut off;
\* urlparse(None) has an empty query
url_query(url) ==
    IF url = PyNone THEN << >>
    ELSE LET u == url[2]
             h == IndexOf(u, "#")
             nofrag == IF h = 0 THEN u ELSE SubSeq(u, 1, h - 1)
             q == IndexOf(nofrag, "?")
         IN IF q = 0 THEN << >> ELSE SubSeq(nofrag, q + 1, Len(nofrag))

\* parse_qs(query)[name] as a list: the values of the fields called name, in
\* order; a field without '=' or with a blank value is dropped
RECURSIVE FieldValues(_, _)
FieldValues(fields, name) ==
    IF fields = << >> THEN << >>
    ELSE LET f == Head(fields)
             e == IndexOf(f, "=")
             rest == FieldValues(Tail(fields), name)
         IN IF e # 0 /\ SubSeq(f, 1, e - 1) = name /\ e < Len(f)
            THEN <<SubSeq(f, e + 1, Len(f))>> \o rest
            ELSE rest

parse_qs_values(query, name) == FieldValues(Split(query, "&"), name)

\* int(text) of a run of decimal digits; anything else is a ValueError
IsDecimal(text) ==
    /\ Len(text) > 0
    /\ \A i \in 1..Len(text) : \E d \in 1..10 : Digits[d] = text[i]

RECURSIVE IntOf(_)
IntOf(text) ==
    IF text = << >> THEN 0
    ELSE 10 * IntOf(SubSeq(text, 1, Len(text) - 1))
         + ((CHOOSE d \in 1..10 : Digits[d] = text[Len(text)]) - 1)

(* ---------------- string literals of the source ---------------- *)
executionWave == <<"e","x","e","c","u","t","i","o","n","W","a","v","e">>
exportId == <<"e","x","p","o","r","t","I","d">>
asyncOperationId == <<"a","s","y","n","c","O","p","e","r","a","t","i","o","n","I","d">>

Processing == <<"P","r","o","c","e","s","s","i","n","g">>
Exported == <<"E","x","p","o","r","t","e","d">>
Error == <<"E","r","r","o","r">>
Cancelled == <<"C","a","n","c","e","l","l","e","d">>
\* a load status other than 'Processing' and 'Error'
Loaded == <<"L","o","a","d","e","d">>
EmptyStr == << >>

(* ---------------- server replies ---------------- *)
\* one reply of a status endpoint: a decoded JSON body or a raised exception
Ok(data) == <<"ok", data>>
Raise(e) == <<"raise", e>>
IsOk(r) == r[1] = "ok"

\* a request issued and the reply it got
Request(endpoint, reply) == <<endpoint, reply>>

\* what a project/is-running request meets: an answer of the server, the
\* server being busy, or a transport error out of requests
IsRunningReplies ==
    { Ok({<<"result", PyBool(TRUE)>>}),
      Ok({<<"result", PyBool(FALSE)>>}),
      Raise("PABusy"),
      Raise("RequestException") }

\* mutant: the transport error passes through API.request as it is
request_Unconverted(r) == r

\* API.request: except requests.RequestException as exc: raise
\* ClientException(exc)
request(r) ==
    IF r = Raise("RequestException") THEN Raise("ClientException") ELSE r

\* replies of project/export/status; the body carries the state under 'state'
ExportReplies ==
    { Ok({<<"state", PyStr(Exported)>>}),
      Ok({<<"state", PyStr(Error)>>}),
      Ok({<<"state", PyStr(Processing)>>}),
      Ok({<<"state", PyStr(Cancelled)>>}),
      Ok({<<"state", PyStr(EmptyStr)>>}),
      Ok({}),
      Raise("APIException") }

\* replies of project/load/status; the body carries the status under 'status'
LoadReplies ==
    { Ok({<<"status", PyStr(Loaded)>>}),
      Ok({<<"status", PyStr(Error)>>}),
      Ok({<<"status", PyStr(Processing)>>}),
      Ok({<<"status", PyStr(EmptyStr)>>}),
      Ok({}),
      Raise("APIException") }

\* Location headers of a start response: none, one whose query carries the
\* operation id under name, and ones whose query lacks it or is not a number
Locations(name) ==
    {PyNone}
    \cup {PyStr(<<"/", "x", "?">> \o name \o <<"=">> \o DecimalStr(n)) :
             n \in 1..MaxWaveId}
    \cup {PyStr(<<"/", "x", "?">> \o name \o <<"=", "4", "2">>),
          PyStr(<<"/", "x", "?">> \o name \o <<"=", "v">>),
          PyStr(<<"/", "x", "?", "a", "=", "1">>),
          PyStr(<<"/", "x">>)}

\* the Location of a wave whose id has the decimal text given
WaveLocation(text) == PyStr(<<"/", "x", "?">> \o executionWave \o <<"=">> \o text)

\* outcomes of the start request: a response with its Location header, or an
\* error raised by API.request
StartReplies(name) ==
    {Raise("APIException")} \cup {Ok(loc) : loc \in Locations(name)}

Busy == Raise("PABusy")
StillRunning == Ok({<<"result", PyBool(TRUE)>>})
NotRunning == Ok({<<"result", PyBool(FALSE)>>})

(* ---------------- state ---------------- *)
VARIABLES
    op,                     \* the call being made
    pc,                     \* position of the call
    wait,                   \* the wait argument
    script,                 \* the replies the status endpoint gives, in order
    fetches,                \* status fetches issued so far
    sleeps,                 \* time.sleep calls made so far
    ignore_first_n_pabusy,  \* the local of Project.execute
    tolerance,              \* ignore_first_n_pabusy as the caller passed it
    wave_id,                \* operation id of the start response
    exc,                    \* exception raised to the caller, "none" if none
    result,                 \* value returned to the caller
    file_size,              \* size of the file passed to upload_file
    session_created,        \* pytus.create returned an upload endpoint
    committed,              \* bytes the server holds for the upload session
    offset,                 \* the local offset: answer of the offset query
    offset_queries,         \* _get_offset calls issued
    terminate_calls,        \* pytus.terminate calls issued
    location,               \* Location header of the start response
    node_list,              \* Project._node_list
    node_arg,               \* the node reference passed to the call
    srv_status,             \* the status the server holds for the node
    srv_err,                \* the server holds an errMsg for the node
    srv_running,            \* the execution wave is running on the server
    log,                    \* the requests issued so far, each with its reply
    guid,                   \* DataSet.guid
    response,               \* the requests.Response handed to _handle_response
    tree,                   \* the local files and folders under source
    recursive,              \* the recursive argument of Drive.upload
    todo,                   \* the targets _upload has still to visit, in order
    visited,                \* the targets _upload has visited in this call
    remote_folders,         \* the folders of the user directory on the server
    calls,                  \* Drive.upload calls made so far
    sid,                    \* API.sid
    warned,                 \* the warnings the call has emitted, in order
    version,                \* the version argument of API(...), Absent if not passed
    url,                    \* the url argument of API(...)
    args,                   \* the node arguments of Project.execute
    exec_nodes,             \* the local nodes of Project.execute
    waiting,                \* place in exec_nodes of the node the legacy branch waits for
    srv_nodes,              \* the node list the server holds now
    options,                \* the dict the caller passed as options, as it is now
    caller_options          \* that dict as it was when the call was made

uploadVars == <<file_size, session_created, committed, offset, offset_queries,
                terminate_calls>>

\* the variables of the node, request, response and folder-walk calls
nodeVars == <<node_list, node_arg>>

serverVars == <<srv_status, srv_err, srv_running>>

requestVars == <<log, guid>>

responseVars == <<response>>

walkVars == <<tree, recursive, todo, visited, remote_folders, calls>>

apiVars == <<sid, warned, version, url>>

execVars == <<args, exec_nodes, waiting, srv_nodes>>

optionVars == <<options, caller_options>>

laterVars == <<nodeVars, serverVars, requestVars, responseVars, walkVars, apiVars, execVars, optionVars>>

vars == <<op, pc, wait, script, fetches, sleeps, ignore_first_n_pabusy,
          tolerance, wave_id, exc, result, uploadVars, location, laterVars>>

\* the upload state of a call that uploads nothing
NoUpload ==
    /\ file_size = 0
    /\ session_created = FALSE
    /\ committed = 0
    /\ offset = PyNone
    /\ offset_queries = 0
    /\ terminate_calls = 0

\* the state of a call that does none of the later operations
NoNodes ==
    /\ node_list = << >>
    /\ node_arg = PyNone

\* the state of a call that follows no node on the server
NoServer ==
    /\ srv_status = PyNone
    /\ srv_err = FALSE
    /\ srv_running = FALSE

\* the state of a call whose requests are not recorded
NoRequests ==
    /\ log = << >>
    /\ guid = PyNone

\* the state of a call that is handed no response
NoResponse == response = PyNone

\* the state of a call that walks no local folder
NoWalk ==
    /\ tree = PyNone
    /\ recursive = FALSE
    /\ todo = << >>
    /\ visited = {}
    /\ remote_folders = {}
    /\ calls = 0

\* the state of a call that is no call on an API object
NoApi ==
    /\ sid = PyNone
    /\ warned = << >>
    /\ version = PyNone
    /\ url = PyNone

\* the state of a call that executes no nodes
NoExec ==
    /\ args = << >>
    /\ exec_nodes = << >>
    /\ waiting = 0
    /\ srv_nodes = << >>

\* the state of a call that takes no options
NoOptions ==
    /\ options = PyNone
    /\ caller_options = PyNone

NoLater == NoNodes /\ NoServer /\ NoRequests /\ NoResponse /\ NoWalk /\ NoApi /\ NoExec /\ NoOptions

NoResult == <<"unset">>
Returned(v) == <<"return", v>>

(* ---------------- project nodes and their lookup ---------------- *)
NodeNames == {<<"X">>, <<"Y">>}
NodeTypes_DataSource == <<"D","a","t","a","S","o","u","r","c","e">>
NodeTypes_Dataset == <<"D","a","t","a","s","e","t">>
NodeTypes == {NodeTypes_DataSource, NodeTypes_Dataset}

\* an item of the 'nodes' list of project/nodes
Node(id, name, type, status) ==
    {<<"id", PyInt(id)>>, <<"name", PyStr(name)>>, <<"type", PyStr(type)>>,
     <<"status", PyStr(status)>>}

empty == <<"e","m","p","t","y">>
synchronized == <<"s","y","n","c","h","r","o","n","i","z","e","d">>
incomplete == <<"i","n","c","o","m","p","l","e","t","e">>
errMsg == <<"f","a","i","l","e","d">>

\* node lists of at most MaxNodes nodes; a node's id is its place in the list
NodeLists ==
    UNION { { [i \in 1..n |-> Node(i, f[i][1], f[i][2], empty)] :
                f \in [1..n -> NodeNames \X NodeTypes] } : n \in 0..MaxNodes }

\* node references: a name, or a dict with 'name' and 'type'
NodeRefs ==
    {PyStr(n) : n \in NodeNames}
    \cup {PyDict({<<"name", PyStr(n)>>, <<"type", PyStr(t)>>}) :
             n \in NodeNames, t \in NodeTypes}

FindOps == {"Project._find_node", "api.Project._find_node"}

\* the places in nodes of the nodes that node_ refers to: the name matches
\* and, when node_ is a dict, the type matches too
Matches(nodes, ref) ==
    IF IsStr(ref)
    THEN {i \in 1..Len(nodes) : dict_get(nodes[i], "name") = ref}
    ELSE {i \in 1..Len(nodes) :
             /\ dict_get(nodes[i], "name") = dict_get(ref[2], "name")
             /\ dict_get(nodes[i], "type") = dict_get(ref[2], "type")}

\* mutant: a name that several nodes carry is refused
find_node_Unambiguous(nodes, ref) ==
    LET m == Matches(nodes, ref) IN
    IF Cardinality(m) # 1 THEN Raise("APIException")
    ELSE Ok(nodes[CHOOSE i \in m : TRUE])

\* project.py: the first node of the list that matches is returned; none
\* matching raises APIException('Node not found', status_code=500)
find_node(nodes, ref) ==
    LET m == Matches(nodes, ref) IN
    IF m = {} THEN Raise("APIException")
    ELSE Ok(nodes[CHOOSE i \in m : \A j \in m : i <= j])

\* api.py: the same search; falling off the loop returns None
find_node_api(nodes, ref) ==
    LET m == Matches(nodes, ref) IN
    IF m = {} THEN Ok(PyNone)
    ELSE Ok(nodes[CHOOSE i \in m : \A j \in m : i <= j])

(* ---------------- Project.execute ---------------- *)
\* mutant: the answer of project/is-running is read the other way round
is_running_Negated(data) == ~truthy(dict_get(data, "result"))

\* Project.is_running: bool(data['result'])
is_running(data) == truthy(dict_get(data, "result"))

\* mutant: a reply other than busy restores the budget to the caller's value
BudgetAfter_Restoring(budget, r) ==
    IF r = Raise("PABusy") THEN budget - 1 ELSE tolerance

\* the busy budget after a status fetch answered by reply r
BudgetAfter(budget, r) ==
    IF r = Busy THEN budget - 1 ELSE budget

\* mutant: the budget is exhausted only once it is overdrawn
BudgetExhausted_Overdrawn(budget) == budget < 0

\* the except PABusy clause re-raises
BudgetExhausted(budget) == budget <= 0

\* the node arguments of the calls that pass any
ExecuteArgs ==
    { <<PyStr(<<"X">>)>>, <<PyStr(<<"Y">>)>>,
      <<PyStr(<<"X">>), PyStr(<<"Y">>)>>, <<PyStr(<<"Y">>), PyStr(<<"X">>)>>,
      <<PyDict({<<"name", PyStr(<<"X">>)>>,
                <<"type", PyStr(NodeTypes_DataSource)>>})>> }

NodeX == Node(1, <<"X">>, NodeTypes_DataSource, empty)
NodeY == Node(2, <<"Y">>, NodeTypes_Dataset, empty)

\* the node list Project.__init__ fetched
CachedLists == {<<NodeX>>, <<NodeX, NodeY>>}

\* the node list of the server at the call: the one fetched at construction,
\* or that list with a node added since
ServerLists(cached) ==
    {cached} \cup (IF Len(cached) = 1 THEN {cached \o <<NodeY>>} ELSE {})

\* scripts that give the same reply to every status fetch
ConstantScripts == {[i \in 1..MaxPolls |-> r] : r \in IsRunningReplies}

InitExecute ==
    /\ op = "execute"
    /\ pc = "call"
    /\ wait \in BOOLEAN
    /\ \/ /\ args = << >>
          /\ node_list = << >>
          /\ srv_nodes = << >>
          /\ script \in [1..MaxPolls -> IsRunningReplies]
          /\ tolerance \in 0..MaxTolerance
       \/ /\ args \in ExecuteArgs
          /\ node_list \in CachedLists
          /\ srv_nodes \in ServerLists(node_list)
          /\ script \in ConstantScripts
          /\ tolerance \in {0, MaxTolerance}
    /\ fetches = 0
    /\ sleeps = 0
    /\ ignore_first_n_pabusy = tolerance
    /\ wave_id = PyNone
    /\ location = NoResult
    /\ node_arg = PyNone
    /\ NoServer /\ NoRequests /\ NoResponse /\ NoWalk /\ NoApi
    /\ exec_nodes = << >>
    /\ waiting = 0
    /\ exc = "none"
    /\ result = NoResult
    /\ NoUpload
    /\ NoOptions

\* mutant: the executionWave value is taken for the id without int()
wave_of_Unconverted(loc) ==
    LET vals == parse_qs_values(url_query(loc), executionWave) IN
    IF vals = << >> THEN Raise("TypeError") ELSE Ok(PyStr(vals[1]))

\* int(parse_qs(query).get('executionWave')[0]): subscripting the None of a
\* missing field is a TypeError, int() of a text that is no number a ValueError
wave_of(loc) ==
    LET vals == parse_qs_values(url_query(loc), executionWave) IN
    IF vals = << >> THEN Raise("TypeError")
    ELSE IF IsDecimal(vals[1]) THEN Ok(PyInt(IntOf(vals[1])))
         ELSE Raise("ValueError")

\* Project.execute: try ... except TypeError: wave_id = None
execute_wave_id(loc) ==
    IF wave_of(loc) = Raise("TypeError") THEN Ok(PyNone) ELSE wave_of(loc)

\* qs[name][0] of Project.load and Project.export: a missing field is a
\* KeyError
qs_item(loc, name) ==
    LET vals == parse_qs_values(url_query(loc), name) IN
    IF vals = << >> THEN Raise("KeyError") ELSE Ok(PyStr(vals[1]))

\* mutant: an argument that matches no node is left out of the request
RECURSIVE resolve_Lenient(_, _)
resolve_Lenient(cached, refs) ==
    IF refs = << >> THEN Ok(<< >>)
    ELSE LET f == find_node(cached, Head(refs))
             rest == resolve_Lenient(cached, Tail(refs))
         IN IF ~IsOk(f) THEN rest
            ELSE Ok(<<PyDict({<<"name", dict_get(f[2], "name")>>,
                             <<"type", dict_get(f[2], "type")>>})>>
                    \o rest[2])

\* for arg in args: node = self._find_node(arg); nodes.append({'name': ...,
\* 'type': ...}): the nodes list, or the exception of the first argument
\* that matches no node
RECURSIVE resolve(_, _)
resolve(cached, refs) ==
    IF refs = << >> THEN Ok(<< >>)
    ELSE LET f == find_node(cached, Head(refs))
             rest == resolve(cached, Tail(refs))
         IN IF ~IsOk(f) THEN f
            ELSE IF ~IsOk(rest) THEN rest
            ELSE Ok(<<PyDict({<<"name", dict_get(f[2], "name")>>,
                             <<"type", dict_get(f[2], "type")>>})>>
                    \o rest[2])

\* mutant: the loop on is-running is entered without a wave id
LegacyBranch_Never(w) == FALSE

\* if wave_id is None: the per-node wait of the legacy branch
LegacyBranch(w) == w = PyNone

\* the deprecation warning for a truthy ignore_first_n_pabusy
execute_warnings(budget) ==
    IF budget # 0 THEN <<"DeprecationWarning">> ELSE << >>

\* Project.execute up to its loops: the node arguments are resolved, the
\* project/execute request is sent, the wave id is read off its response,
\* and wait and the wave id choose between returning, the legacy per-node
\* wait and the loop on is-running
ExecuteStart ==
    /\ op = "execute" /\ pc = "call"
    /\ warned' = warned \o execute_warnings(ignore_first_n_pabusy)
    /\ LET res == resolve(node_list, args) IN
       IF ~IsOk(res)
       THEN /\ pc' = "raised" /\ exc' = res[2]
            /\ UNCHANGED <<location, wave_id, result, log, exec_nodes, waiting>>
       ELSE
         /\ exec_nodes' = res[2]
         /\ \E r \in StartReplies(executionWave) :
           /\ log' = Append(log, Request(<<"project/execute", args>>, r))
           /\ IF ~IsOk(r)
              THEN /\ pc' = "raised" /\ exc' = r[2]
                   /\ UNCHANGED <<location, wave_id, result, waiting>>
              ELSE /\ location' = r[2]
                   /\ LET w == execute_wave_id(r[2]) IN
                      IF ~IsOk(w)
                      THEN /\ pc' = "raised" /\ exc' = w[2]
                           /\ UNCHANGED <<wave_id, result, waiting>>
                      ELSE /\ wave_id' = w[2]
                           /\ exc' = exc
                           /\ IF ~wait
                              THEN /\ pc' = "done" /\ result' = Returned(w[2])
                                   /\ waiting' = waiting
                              ELSE IF LegacyBranch(w[2])
                              THEN IF res[2] = << >>
                                   THEN /\ pc' = "done"
                                        /\ result' = Returned(PyNone)
                                        /\ waiting' = waiting
                                   ELSE /\ pc' = "legacy" /\ result' = result
                                        /\ waiting' = 1
                              ELSE /\ pc' = "sleep" /\ result' = result
                                   /\ waiting' = waiting
    /\ UNCHANGED <<op, wait, script, fetches, sleeps, ignore_first_n_pabusy,
                   tolerance, uploadVars, nodeVars, serverVars, guid,
                   responseVars, walkVars, sid, version, url, args, srv_nodes,
                   optionVars>>

\* time.sleep(1) at the top of the loop body
ExecuteSleep ==
    /\ op = "execute" /\ pc = "sleep"
    /\ pc' = "fetch"
    /\ sleeps' = sleeps + 1
    /\ UNCHANGED <<op, wait, script, fetches, ignore_first_n_pabusy,
                   tolerance, wave_id, exc, result,
                   uploadVars, location, laterVars>>

\* self.is_running(wave_id) and what the loop does with its outcome
ExecutePoll ==
    /\ op = "execute" /\ pc = "fetch"
    /\ fetches < MaxPolls
    /\ fetches' = fetches + 1
    /\ LET r == request(script[fetches + 1]) IN
       /\ ignore_first_n_pabusy' = BudgetAfter(ignore_first_n_pabusy, r)
       /\ IF IsOk(r)
          THEN IF is_running(r[2])
               THEN pc' = "sleep" /\ exc' = exc /\ result' = result
               ELSE /\ pc' = "done" /\ exc' = exc
                    /\ result' = Returned(wave_id)
          ELSE IF r = Busy
               THEN IF BudgetExhausted(ignore_first_n_pabusy')
                    THEN pc' = "raised" /\ exc' = "PABusy" /\ result' = result
                    ELSE pc' = "sleep" /\ exc' = exc /\ result' = result
               ELSE pc' = "raised" /\ exc' = r[2] /\ result' = result
    /\ UNCHANGED <<op, wait, script, sleeps, tolerance, wave_id,
                   uploadVars, location, laterVars>>

(* ---------------- Project.export ---------------- *)
\* mutant: 'Error' is left out of the terminal states
ExportTerminal_NoError(status) ==
    dict_get(status, "state") \in {PyStr(Exported)}

\* mutant: every state but 'Processing' is terminal
ExportTerminal_NotProcessing(status) ==
    dict_get(status, "state") # PyStr(Processing)

\* mutant: 'Cancelled' is terminal too
ExportTerminal_WithCancelled(status) ==
    dict_get(status, "state")
        \in {PyStr(Exported), PyStr(Error), PyStr(Cancelled)}

\* status.get('state') in ('Exported', 'Error')
ExportTerminal(status) ==
    dict_get(status, "state") \in {PyStr(Exported), PyStr(Error)}

\* dict[key] = value
dict_set(d, key, value) == {p \in d : p[1] # key} \cup {<<key, value>>}

\* {**a, **b}: a new dict, the keys of b taking precedence
dict_merge(a, b) == {p \in a : \A q \in b : q[1] # p[1]} \cup b

\* the file_path argument and the uuid of the project
file_path == <<"a", ".", "p", "s", "6">>
uuid == <<"u">>

maximum == <<"m", "a", "x", "i", "m", "u", "m">>
Maximum == <<"M", "a", "x", "i", "m", "u", "m">>
bogus == <<"b", "o", "g", "u", "s">>

\* str.lower() on the letters the inputs are written with
lower(chars) == [i \in 1..Len(chars) |-> IF chars[i] = "M" THEN "m" ELSE chars[i]]

\* compression_levels[name]: its level, or a KeyError
compression_levels(name) ==
    CASE name = <<"s", "t", "o", "r", "e">> -> Ok(PyInt(0))
      [] name = <<"f", "a", "s", "t", "e", "s", "t">> -> Ok(PyInt(1))
      [] name = <<"f", "a", "s", "t">> -> Ok(PyInt(3))
      [] name = <<"n", "o", "r", "m", "a", "l">> -> Ok(PyInt(5))
      [] name = maximum -> Ok(PyInt(7))
      [] name = <<"u", "l", "t", "r", "a">> -> Ok(PyInt(9))
      [] OTHER -> Raise("KeyError")

\* the options dicts a caller passes: None, or a dict
OptionsArgs ==
    { PyNone,
      PyDict({}),
      PyDict({<<"compressionLevel", PyStr(Maximum)>>}),
      PyDict({<<"compressionLevel", PyStr(bogus)>>}),
      PyDict({<<"ids", PyList(<<PyStr(<<"v">>)>>)>>,
              <<"overwriteExisting", PyBool(TRUE)>>}) }

\* the defaults of Project.export
defaults ==
    { <<"compressionLevel", PyInt(5)>>,
      <<"keepBackups", PyBool(TRUE)>>,
      <<"keepMacrosAndVars", PyBool(TRUE)>>,
      <<"keepSliceStatistics", PyBool(FALSE)>>,
      <<"overwriteExisting", PyBool(FALSE)>>,
      <<"dicts", PyDict({})>>,
      <<"usedDicts", PyDict({})>>,
      <<"usedParsers", PyList(<< >>)>> }

\* options['fileName'], options['fileFormat'] and options['ids'] are
\* assigned in the dict the function was handed
named(d) ==
    LET parts == Split(file_path, ".")
        ids == IF \E p \in d : p[1] = "ids" THEN dict_get(d, "ids")
               ELSE PyList(<<PyStr(uuid)>>)
    IN dict_set(dict_set(dict_set(d, "fileName", PyStr(file_path)),
                         "fileFormat", PyStr(parts[Len(parts)])),
                "ids", ids)

\* the compression level named in the dict is replaced there by its number;
\* an unknown name is a ClientException
levelled(d) ==
    LET cmpr == dict_get(d, "compressionLevel") IN
    IF ~truthy(cmpr) THEN Ok(d)
    ELSE IF ~IsStr(cmpr) THEN Raise("AttributeError")
    ELSE LET level == compression_levels(lower(cmpr[2])) IN
         IF IsOk(level) THEN Ok(dict_set(d, "compressionLevel", level[2]))
         ELSE Raise("ClientException")

\* the scripts in which every reply is the same
ExportConstantScripts == {[i \in 1..MaxPolls |-> r] : r \in ExportReplies}

InitExport ==
    /\ op = "export"
    /\ pc = "call"
    /\ wait \in BOOLEAN
    /\ \/ /\ options = PyNone
          /\ script \in [1..MaxPolls -> ExportReplies]
       \/ /\ options \in OptionsArgs \ {PyNone}
          /\ script \in ExportConstantScripts
    /\ caller_options = options
    /\ fetches = 0
    /\ sleeps = 0
    /\ tolerance = 0
    /\ ignore_first_n_pabusy = 0
    /\ wave_id = PyNone
    /\ location = NoResult
    /\ NoNodes /\ NoServer /\ NoRequests /\ NoResponse /\ NoWalk /\ NoApi
    /\ NoExec
    /\ exc = "none"
    /\ result = NoResult
    /\ NoUpload

\* the options are completed in the dict passed (in a new one when none was
\* passed), the project/export request is sent with the defaults under them,
\* the exportId is read off its response, and wait chooses between returning
\* and the loop
ExportStart ==
    /\ op = "export" /\ pc = "call"
    /\ LET d == named(IF options = PyNone THEN {} ELSE options[2])
           l == levelled(d)
           now == IF IsOk(l) THEN l[2] ELSE d
       IN
       /\ options' = IF options = PyNone THEN PyNone ELSE PyDict(now)
       /\ IF ~IsOk(l)
          THEN /\ pc' = "raised" /\ exc' = l[2]
               /\ UNCHANGED <<location, wave_id, result, log>>
          ELSE \E r \in StartReplies(exportId) :
            /\ log' = Append(log, Request(<<"project/export",
                                           dict_merge(defaults, now)>>, r))
            /\ IF ~IsOk(r)
               THEN /\ pc' = "raised" /\ exc' = r[2]
                    /\ UNCHANGED <<location, wave_id, result>>
               ELSE /\ location' = r[2]
                    /\ LET export_id == qs_item(r[2], exportId) IN
                       IF ~IsOk(export_id)
                       THEN /\ pc' = "raised" /\ exc' = export_id[2]
                            /\ UNCHANGED <<wave_id, result>>
                       ELSE /\ wave_id' = export_id[2]
                            /\ exc' = exc
                            /\ IF wait
                               THEN pc' = "sleep" /\ result' = result
                               ELSE pc' = "done"
                                    /\ result' = Returned(export_id[2])
    /\ UNCHANGED <<op, wait, script, fetches, sleeps, ignore_first_n_pabusy,
                   tolerance, uploadVars, nodeVars, serverVars, guid,
                   responseVars, walkVars, apiVars, execVars, caller_options>>

ExportSleep ==
    /\ op = "export" /\ pc = "sleep"
    /\ pc' = "fetch"
    /\ sleeps' = sleeps + 1
    /\ UNCHANGED <<op, wait, script, fetches, ignore_first_n_pabusy,
                   tolerance, wave_id, exc, result,
                   uploadVars, location, laterVars>>

\* self.get_export_status(export_id) and the test of its state
ExportPoll ==
    /\ op = "export" /\ pc = "fetch"
    /\ fetches < MaxPolls
    /\ fetches' = fetches + 1
    /\ LET r == script[fetches + 1] IN
       IF IsOk(r)
       THEN IF ExportTerminal(r[2])
            THEN pc' = "done" /\ exc' = exc /\ result' = Returned(r[2])
            ELSE pc' = "sleep" /\ exc' = exc /\ result' = result
       ELSE pc' = "raised" /\ exc' = r[2] /\ result' = result
    /\ UNCHANGED <<op, wait, script, sleeps, ignore_first_n_pabusy,
                   tolerance, wave_id,
                   uploadVars, location, laterVars>>

(* ---------------- Project.load ---------------- *)
\* mutant: the 'Error' status is returned like any other final status
LoadOutcome_ErrorReturned(status) ==
    LET v == dict_get(status, "status") IN
    IF ~IsStr(v) THEN "TypeError"
    ELSE IF ~IsSubstring(v[2], Processing) THEN "return" ELSE "continue"

\* what one iteration of the loop does with a fetched status:
\*   status.get('status') not in ('Processing')  -- a test on a str, since
\*   ('Processing') is not a tuple; a left operand that is not a str raises
\*   TypeError
LoadOutcome(status) ==
    LET v == dict_get(status, "status") IN
    IF ~IsStr(v) THEN "TypeError"
    ELSE IF ~IsSubstring(v[2], Processing)
         THEN IF IsSubstring(v[2], Error) THEN "ClientException" ELSE "return"
         ELSE "continue"

InitLoad ==
    /\ op = "load"
    /\ pc = "call"
    /\ wait \in BOOLEAN
    /\ script \in [1..MaxPolls -> LoadReplies]
    /\ fetches = 0
    /\ sleeps = 0
    /\ tolerance = 0
    /\ ignore_first_n_pabusy = 0
    /\ wave_id = PyNone
    /\ location = NoResult
    /\ NoLater
    /\ exc = "none"
    /\ result = NoResult
    /\ NoUpload

\* the project/load request, the asyncOperationId of its response, and the
\* branch on wait
LoadStart ==
    /\ op = "load" /\ pc = "call"
    /\ \E r \in StartReplies(asyncOperationId) :
         IF ~IsOk(r)
         THEN /\ pc' = "raised" /\ exc' = r[2]
              /\ UNCHANGED <<location, wave_id, result>>
         ELSE /\ location' = r[2]
              /\ LET load_id == qs_item(r[2], asyncOperationId) IN
                 IF ~IsOk(load_id)
                 THEN /\ pc' = "raised" /\ exc' = load_id[2]
                      /\ UNCHANGED <<wave_id, result>>
                 ELSE /\ wave_id' = load_id[2]
                      /\ exc' = exc
                      /\ IF wait
                         THEN pc' = "sleep" /\ result' = result
                         ELSE pc' = "done" /\ result' = Returned(load_id[2])
    /\ UNCHANGED <<op, wait, script, fetches, sleeps, ignore_first_n_pabusy,
                   tolerance, uploadVars, laterVars>>

LoadSleep ==
    /\ op = "load" /\ pc = "sleep"
    /\ pc' = "fetch"
    /\ sleeps' = sleeps + 1
    /\ UNCHANGED <<op, wait, script, fetches, ignore_first_n_pabusy,
                   tolerance, wave_id, exc, result,
                   uploadVars, location, laterVars>>

\* self._get_load_status(load_id) and the tests of its status
LoadPoll ==
    /\ op = "load" /\ pc = "fetch"
    /\ fetches < MaxPolls
    /\ fetches' = fetches + 1
    /\ LET r == script[fetches + 1] IN
       IF IsOk(r)
       THEN LET o == LoadOutcome(r[2]) IN
            CASE o = "return" ->
                   pc' = "done" /\ exc' = exc /\ result' = Returned(r[2])
              [] o = "continue" ->
                   pc' = "sleep" /\ exc' = exc /\ result' = result
              [] OTHER ->
                   pc' = "raised" /\ exc' = o /\ result' = result
       ELSE pc' = "raised" /\ exc' = r[2] /\ result' = result
    /\ UNCHANGED <<op, wait, script, sleeps, ignore_first_n_pabusy,
                   tolerance, wave_id,
                   uploadVars, location, laterVars>>

(* ---------------- upload_file ---------------- *)
UploadOps == {"Drive.upload_file", "RemoteFileSystem.upload_file"}

\* mutant: the comparison is inverted
DriveIncomplete_Inverted(size, off) == size = off \/ size = 0

\* mutant: the zero-size clause is dropped
DriveIncomplete_NoZero(size, off) == size # off

\* Drive.upload_file: file_size != offset or file_size == 0
DriveIncomplete(size, off) == size # off \/ size = 0

\* RemoteFileSystem.upload_file: file_size != offset
FsIncomplete(size, off) == size # off

Incomplete(size, off) ==
    IF op = "Drive.upload_file"
    THEN DriveIncomplete(size, off)
    ELSE FsIncomplete(size, off)

InitUpload ==
    /\ op \in UploadOps
    /\ pc = "call"
    /\ wait = FALSE
    /\ script = << >>
    /\ fetches = 0
    /\ sleeps = 0
    /\ tolerance = 0
    /\ ignore_first_n_pabusy = 0
    /\ wave_id = PyNone
    /\ location = NoResult
    /\ NoLater
    /\ exc = "none"
    /\ result = NoResult
    /\ file_size \in 0..MaxFileSize
    /\ session_created = FALSE
    /\ committed = 0
    /\ offset = PyNone
    /\ offset_queries = 0
    /\ terminate_calls = 0

\* pytus.create: the server opens an upload session, or the request fails
UploadCreate ==
    /\ op \in UploadOps /\ pc = "call"
    /\ \E ok \in BOOLEAN :
         IF ok
         THEN pc' = "transfer" /\ session_created' = TRUE /\ exc' = exc
         ELSE /\ pc' = "raised" /\ exc' = "RequestException"
              /\ session_created' = FALSE
    /\ UNCHANGED <<op, wait, script, fetches, sleeps, ignore_first_n_pabusy,
                   tolerance, wave_id, result, file_size, committed, offset,
                   offset_queries, terminate_calls,
                   location, laterVars>>

\* pytus.resume(file, file_endpoint, offset=0): the server commits some of the
\* bytes; the call returns, or a network error propagates to the caller
UploadTransfer ==
    /\ op \in UploadOps /\ pc = "transfer"
    /\ \E c \in 0..file_size, ok \in BOOLEAN :
         /\ committed' = c
         /\ IF ok
            THEN pc' = "verify" /\ exc' = exc
            ELSE pc' = "raised" /\ exc' = "RequestException"
    /\ UNCHANGED <<op, wait, script, fetches, sleeps, ignore_first_n_pabusy,
                   tolerance, wave_id, result, file_size, session_created,
                   offset, offset_queries, terminate_calls,
                   location, laterVars>>

\* outcomes of a request of the verify phase: an answer, or a network error
VerifyReplies == {Ok({}), Raise("RequestException")}

\* mutant: the verify phase has no except clause
Swallowed_Nothing(e) == FALSE

\* except requests.exceptions.RequestException: pass
Swallowed(e) == e = "RequestException"

\* _get_offset and the completeness test
UploadVerify ==
    /\ op \in UploadOps /\ pc = "verify"
    /\ offset_queries' = offset_queries + 1
    /\ \E r \in VerifyReplies :
         /\ log' = Append(log, Request("offset", r))
         /\ IF IsOk(r)
            THEN /\ offset' = PyInt(committed)
                 /\ pc' = IF Incomplete(file_size, committed)
                          THEN "terminate" ELSE "done"
                 /\ exc' = exc
            ELSE /\ offset' = offset
                 /\ IF Swallowed(r[2])
                    THEN pc' = "done" /\ exc' = exc
                    ELSE pc' = "raised" /\ exc' = r[2]
    /\ UNCHANGED <<op, wait, script, fetches, sleeps, ignore_first_n_pabusy,
                   tolerance, wave_id, result, file_size,
                   session_created, committed, terminate_calls,
                   location, nodeVars, serverVars, guid, responseVars,
                   walkVars,
                   apiVars,
                   execVars,
                   optionVars>>

\* pytus.terminate
UploadTerminate ==
    /\ op \in UploadOps /\ pc = "terminate"
    /\ terminate_calls' = terminate_calls + 1
    /\ \E r \in VerifyReplies :
         /\ log' = Append(log, Request("terminate", r))
         /\ IF IsOk(r) \/ Swallowed(r[2])
            THEN pc' = "done" /\ exc' = exc
            ELSE pc' = "raised" /\ exc' = r[2]
    /\ UNCHANGED <<op, wait, script, fetches, sleeps, ignore_first_n_pabusy,
                   tolerance, wave_id, result, file_size,
                   session_created, committed, offset, offset_queries,
                   location, nodeVars, serverVars, guid, responseVars,
                   walkVars,
                   apiVars,
                   execVars,
                   optionVars>>

(* ---------------- Project._find_node ---------------- *)
InitFindNode ==
    /\ op \in FindOps
    /\ pc = "call"
    /\ wait = FALSE
    /\ script = << >>
    /\ fetches = 0
    /\ sleeps = 0
    /\ tolerance = 0
    /\ ignore_first_n_pabusy = 0
    /\ wave_id = PyNone
    /\ location = NoResult
    /\ exc = "none"
    /\ result = NoResult
    /\ NoUpload
    /\ node_list \in NodeLists
    /\ node_arg \in NodeRefs
    /\ NoServer
    /\ NoRequests
    /\ NoResponse
    /\ NoWalk
    /\ NoApi
    /\ NoExec
    /\ NoOptions

\* self._find_node(node_)
FindNode ==
    /\ op \in FindOps /\ pc = "call"
    /\ LET r == IF op = "Project._find_node"
                THEN find_node(node_list, node_arg)
                ELSE find_node_api(node_list, node_arg) IN
       IF IsOk(r)
       THEN pc' = "done" /\ result' = Returned(r[2]) /\ exc' = exc
       ELSE pc' = "raised" /\ exc' = r[2] /\ result' = result
    /\ UNCHANGED <<op, wait, script, fetches, sleeps, ignore_first_n_pabusy,
                   tolerance, wave_id, uploadVars, location, laterVars>>

(* ---------------- Project.execute_to ---------------- *)
\* node lists and references of the execute_to calls
ShortNodeLists == {l \in NodeLists : Len(l) <= 1}
NameRefs == {PyStr(n) : n \in NodeNames}

InitExecuteTo ==
    /\ op = "execute_to"
    /\ pc = "call"
    /\ wait \in BOOLEAN
    /\ script \in [1..MaxPolls -> IsRunningReplies]
    /\ fetches = 0
    /\ sleeps = 0
    /\ tolerance = 0
    /\ ignore_first_n_pabusy = 0
    /\ wave_id = PyNone
    /\ location = NoResult
    /\ exc = "none"
    /\ result = NoResult
    /\ NoUpload
    /\ node_list \in ShortNodeLists
    /\ node_arg \in NameRefs
    /\ NoServer
    /\ NoRequests
    /\ NoResponse
    /\ NoWalk
    /\ NoApi
    /\ NoExec
    /\ NoOptions

\* mutant: the body of the while loop runs before its test
WhileTest_SleepFirst == "sleep"

\* while self.is_running(wave_id): time.sleep(1) -- the loop is entered at
\* its test, the status fetch
WhileTest == "fetch"

\* self._find_node(node), the project/execute-to-node request, the wave id of
\* its response (no except clause here), and the branch on wait
ExecuteToStart ==
    /\ op = "execute_to" /\ pc = "call"
    /\ IF ~IsOk(find_node(node_list, node_arg))
       THEN /\ pc' = "raised" /\ exc' = find_node(node_list, node_arg)[2]
            /\ UNCHANGED <<location, wave_id, result>>
       ELSE \E r \in StartReplies(executionWave) :
         IF ~IsOk(r)
         THEN /\ pc' = "raised" /\ exc' = r[2]
              /\ UNCHANGED <<location, wave_id, result>>
         ELSE /\ location' = r[2]
              /\ LET w == wave_of(r[2]) IN
                 IF ~IsOk(w)
                 THEN /\ pc' = "raised" /\ exc' = w[2]
                      /\ UNCHANGED <<wave_id, result>>
                 ELSE /\ wave_id' = w[2]
                      /\ exc' = exc
                      /\ IF wait
                         THEN pc' = WhileTest /\ result' = result
                         ELSE pc' = "done" /\ result' = Returned(w[2])
    /\ UNCHANGED <<op, wait, script, fetches, sleeps, ignore_first_n_pabusy,
                   tolerance, uploadVars, laterVars>>

\* the loop test: while self.is_running(wave_id)
ExecuteToPoll ==
    /\ op = "execute_to" /\ pc = "fetch"
    /\ fetches < MaxPolls
    /\ fetches' = fetches + 1
    /\ LET r == request(script[fetches + 1]) IN
       IF IsOk(r)
       THEN IF is_running(r[2])
            THEN pc' = "sleep" /\ exc' = exc /\ result' = result
            ELSE pc' = "done" /\ exc' = exc /\ result' = Returned(PyNone)
       ELSE pc' = "raised" /\ exc' = r[2] /\ result' = result
    /\ UNCHANGED <<op, wait, script, sleeps, ignore_first_n_pabusy, tolerance,
                   wave_id, uploadVars, location, laterVars>>

\* the loop body: time.sleep(1)
ExecuteToSleep ==
    /\ op = "execute_to" /\ pc = "sleep"
    /\ pc' = "fetch"
    /\ sleeps' = sleeps + 1
    /\ UNCHANGED <<op, wait, script, fetches, ignore_first_n_pabusy,
                   tolerance, wave_id, exc, result,
                   uploadVars, location, laterVars>>

(* ---------------- Project.wait_for_completion ---------------- *)
\* the 'nodes' list the server answers project/nodes with: one node named X
ServerNodes ==
    <<Node(1, <<"X">>, NodeTypes_DataSource, srv_status[2])
        \cup (IF srv_err THEN {<<"errMsg", PyStr(errMsg)>>} ELSE {})>>

\* the wave_id argument
WaveIdArgs == {PyNone, PyInt(0), PyInt(1)}

InitWaitForCompletion ==
    /\ op = "wait_for_completion"
    /\ pc = "call"
    /\ wait = FALSE
    /\ script = << >>
    /\ fetches = 0
    /\ sleeps = 0
    /\ tolerance = 0
    /\ ignore_first_n_pabusy = 0
    /\ wave_id \in WaveIdArgs
    /\ location = NoResult
    /\ exc = "none"
    /\ result = NoResult
    /\ NoUpload
    /\ node_list = << >>
    /\ node_arg \in NameRefs
    /\ srv_status = PyStr(empty)
    /\ srv_err = FALSE
    /\ srv_running = TRUE
    /\ NoRequests
    /\ NoResponse
    /\ NoWalk
    /\ NoApi
    /\ NoExec
    /\ NoOptions

\* the server finishes the node without an error
NodeSucceeds ==
    /\ op = "wait_for_completion"
    /\ srv_running /\ srv_status = PyStr(empty)
    /\ srv_status' = PyStr(synchronized)
    /\ UNCHANGED <<op, pc, wait, script, fetches, sleeps,
                   ignore_first_n_pabusy, tolerance, wave_id, exc, result,
                   uploadVars, location, nodeVars, srv_err, srv_running,
                   requestVars,
                   responseVars,
                   walkVars,
                   apiVars,
                   execVars,
                   optionVars>>

\* the server gives the node up with an error message
NodeFails ==
    /\ op = "wait_for_completion"
    /\ srv_running /\ srv_status = PyStr(empty)
    /\ srv_status' = PyStr(incomplete)
    /\ srv_err' = TRUE
    /\ UNCHANGED <<op, pc, wait, script, fetches, sleeps,
                   ignore_first_n_pabusy, tolerance, wave_id, exc, result,
                   uploadVars, location, nodeVars, srv_running, requestVars,
                   responseVars,
                   walkVars,
                   apiVars,
                   execVars,
                   optionVars>>

\* the execution wave ends on the server
WaveEnds ==
    /\ op = "wait_for_completion"
    /\ srv_running
    /\ srv_running' = FALSE
    /\ UNCHANGED <<op, pc, wait, script, fetches, sleeps,
                   ignore_first_n_pabusy, tolerance, wave_id, exc, result,
                   uploadVars, location, nodeVars, srv_status, srv_err,
                   requestVars,
                   responseVars,
                   walkVars,
                   apiVars,
                   execVars,
                   optionVars>>

\* the warning about a missing wave_id and time.sleep(0.5)
WaitBegin ==
    /\ op = "wait_for_completion" /\ pc = "call"
    /\ pc' = "fetch"
    /\ sleeps' = sleeps + 1
    /\ UNCHANGED <<op, wait, script, fetches, ignore_first_n_pabusy,
                   tolerance, wave_id, exc, result,
                   uploadVars, location, laterVars>>

\* the if/elif chain on the node's stats: the value to return, None when the
\* stats decide nothing
NodeVerdict(stats) ==
    IF truthy(dict_get(stats, "errMsg")) THEN PyBool(FALSE)
    ELSE IF dict_get(stats, "status") = PyStr(synchronized) THEN PyBool(TRUE)
    ELSE IF dict_get(stats, "status") = PyStr(incomplete) THEN PyBool(FALSE)
    ELSE PyNone

\* self._update_node_list(), self._find_node(node) and the tests on its stats
WaitRefresh ==
    /\ op = "wait_for_completion" /\ pc = "fetch"
    /\ fetches < MaxPolls
    /\ fetches' = fetches + 1
    /\ node_list' = ServerNodes
    /\ LET f == find_node(ServerNodes, node_arg) IN
       IF ~IsOk(f)
       THEN pc' = "raised" /\ exc' = f[2] /\ result' = result
       ELSE IF NodeVerdict(f[2]) # PyNone
            THEN /\ pc' = "done" /\ exc' = exc
                 /\ result' = Returned(NodeVerdict(f[2]))
            ELSE /\ pc' = IF truthy(wave_id) THEN "verify" ELSE "sleep"
                 /\ exc' = exc /\ result' = result
    /\ UNCHANGED <<op, wait, script, sleeps, ignore_first_n_pabusy, tolerance,
                   wave_id, uploadVars, location, node_arg, serverVars,
                   requestVars,
                   responseVars,
                   walkVars,
                   apiVars,
                   execVars,
                   optionVars>>

\* elif wave_id and not self.is_running(wave_id): return False
WaitIsRunning ==
    /\ op = "wait_for_completion" /\ pc = "verify"
    /\ \E r \in {Ok({<<"result", PyBool(srv_running)>>}), Busy} :
         IF ~IsOk(r)
         THEN pc' = "raised" /\ exc' = r[2] /\ result' = result
         ELSE IF is_running(r[2])
              THEN pc' = "sleep" /\ exc' = exc /\ result' = result
              ELSE /\ pc' = "done" /\ exc' = exc
                   /\ result' = Returned(PyBool(FALSE))
    /\ UNCHANGED <<op, wait, script, fetches, sleeps, ignore_first_n_pabusy,
                   tolerance, wave_id, uploadVars, location, laterVars>>

\* time.sleep(1) at the end of the loop body
WaitSleep ==
    /\ op = "wait_for_completion" /\ pc = "sleep"
    /\ pc' = "fetch"
    /\ sleeps' = sleeps + 1
    /\ UNCHANGED <<op, wait, script, fetches, ignore_first_n_pabusy,
                   tolerance, wave_id, exc, result,
                   uploadVars, location, laterVars>>

(* ---------------- Project.execute: the legacy branch ---------------- *)
LegacyWaiting == pc \in {"legacy", "refresh", "nap"}

\* the project/nodes requests made so far
Refreshes == {i \in 1..Len(log) : log[i][1][1] = "project/nodes"}

\* a node of the server's list with its execution over: synchronized, or
\* incomplete with an error message
Finished(node, ok) ==
    (node \ {<<"status", PyStr(empty)>>})
        \cup (IF ok THEN {<<"status", PyStr(synchronized)>>}
              ELSE {<<"status", PyStr(incomplete)>>, <<"errMsg", PyStr(errMsg)>>})

\* the server finishes a node while the client waits
ServerFinishesNode ==
    /\ op = "execute" /\ LegacyWaiting
    /\ \E i \in 1..Len(srv_nodes), ok \in BOOLEAN :
         /\ dict_get(srv_nodes[i], "status") = PyStr(empty)
         /\ srv_nodes' = [srv_nodes EXCEPT ![i] = Finished(srv_nodes[i], ok)]
    /\ UNCHANGED <<op, pc, wait, script, fetches, sleeps,
                   ignore_first_n_pabusy, tolerance, wave_id, exc, result,
                   uploadVars, location, nodeVars, serverVars, requestVars,
                   responseVars, walkVars, apiVars, args, exec_nodes, waiting,
                   optionVars>>

\* self.wait_for_completion(node) for the next node: the warning about the
\* missing wave_id and time.sleep(0.5)
LegacyBegin ==
    /\ op = "execute" /\ pc = "legacy"
    /\ warned' = Append(warned, "UserWarning")
    /\ sleeps' = sleeps + 1
    /\ pc' = "refresh"
    /\ UNCHANGED <<op, wait, script, fetches, ignore_first_n_pabusy,
                   tolerance, wave_id, exc, result, uploadVars, location,
                   nodeVars, serverVars, requestVars, responseVars, walkVars,
                   sid, version, url, execVars,
                   optionVars>>

\* one pass of the loop of wait_for_completion: the node list is fetched
\* anew, the node looked up and its stats tested; a verdict ends this wait
\* and the for loop of execute goes on to the next node or returns
LegacyRefresh ==
    /\ op = "execute" /\ pc = "refresh"
    /\ Cardinality(Refreshes) < MaxPolls
    /\ log' = Append(log, Request(<<"project/nodes", waiting>>, Ok(srv_nodes)))
    /\ node_list' = srv_nodes
    /\ LET f == find_node(srv_nodes, exec_nodes[waiting]) IN
       IF ~IsOk(f)
       THEN /\ pc' = "raised" /\ exc' = f[2]
            /\ UNCHANGED <<result, waiting>>
       ELSE IF NodeVerdict(f[2]) = PyNone
       THEN /\ pc' = "nap"
            /\ UNCHANGED <<exc, result, waiting>>
       ELSE IF waiting = Len(exec_nodes)
       THEN /\ pc' = "done" /\ result' = Returned(PyNone)
            /\ UNCHANGED <<exc, waiting>>
       ELSE /\ pc' = "legacy" /\ waiting' = waiting + 1
            /\ UNCHANGED <<exc, result>>
    /\ UNCHANGED <<op, wait, script, fetches, sleeps, ignore_first_n_pabusy,
                   tolerance, wave_id, uploadVars, location, node_arg,
                   serverVars, guid, responseVars, walkVars, apiVars,
                   args, exec_nodes, srv_nodes,
                   optionVars>>

\* time.sleep(1) at the end of the loop body of wait_for_completion
LegacySleep ==
    /\ op = "execute" /\ pc = "nap"
    /\ sleeps' = sleeps + 1
    /\ pc' = "refresh"
    /\ UNCHANGED <<op, wait, script, fetches, ignore_first_n_pabusy,
                   tolerance, wave_id, exc, result, uploadVars, location,
                   laterVars>>

(* ---------------- DataSet and retry_on_invalid_guid ---------------- *)
\* the requests of the log that went to endpoint
Issued(endpoint) == {i \in 1..Len(log) : log[i][1] = endpoint}

DataSetOps == {"DataSet.get_info", "api.DataSet.get_info"}

\* replies of dataset/info: the info, or an exception out of API.request
InfoReplies ==
    { Ok({<<"rowCount", PyInt(1)>>}),
      Raise("_WrapperNotFound"),
      Raise("APIException"),
      Raise("PABusy"),
      Raise("ClientException") }

\* replies of dataset/wrapper-guid
GuidReplies ==
    { Ok({<<"wrapperGuid", PyStr(<<"g">>)>>}), Raise("APIException") }

\* except APIException also catches its subclass PABusy
IsAPIException(e) == e \in {"APIException", "PABusy"}

\* mutant: the except clause guards the re-issued request as well
Retried_EveryAttempt(variant, e, attempt) ==
    IF variant = "DataSet.get_info"
    THEN e = "_WrapperNotFound"
    ELSE IsAPIException(e)

\* the except clause of the wrapper: it guards the first func(cls, ...) only;
\* project.py catches _WrapperNotFound, api.py catches APIException
Retried(variant, e, attempt) ==
    /\ attempt = 1
    /\ IF variant = "DataSet.get_info"
       THEN e = "_WrapperNotFound"
       ELSE IsAPIException(e)

\* project.py: the constructor has fetched a guid; api.py: guid is None
InitDataSet ==
    /\ op \in DataSetOps
    /\ pc = "call"
    /\ wait = FALSE
    /\ script = << >>
    /\ fetches = 0
    /\ sleeps = 0
    /\ tolerance = 0
    /\ ignore_first_n_pabusy = 0
    /\ wave_id = PyNone
    /\ location = NoResult
    /\ exc = "none"
    /\ result = NoResult
    /\ NoUpload
    /\ NoNodes
    /\ NoServer
    /\ log = << >>
    /\ guid = IF op = "DataSet.get_info" THEN PyStr(<<"s">>) ELSE PyNone
    /\ NoResponse
    /\ NoWalk
    /\ NoApi
    /\ NoExec
    /\ NoOptions

\* func(cls, *args, **kwargs): the dataset/info request, first or re-issued
DataSetRequest ==
    /\ op \in DataSetOps /\ pc = "call"
    /\ fetches < MaxPolls
    /\ fetches' = fetches + 1
    /\ \E r \in InfoReplies :
         /\ log' = Append(log, Request("dataset/info", r))
         /\ IF IsOk(r)
            THEN pc' = "done" /\ result' = Returned(r[2]) /\ exc' = exc
            ELSE IF Retried(op, r[2], fetches + 1)
                 THEN pc' = "fetch" /\ result' = result /\ exc' = exc
                 ELSE pc' = "raised" /\ exc' = r[2] /\ result' = result
    /\ UNCHANGED <<op, wait, script, sleeps, ignore_first_n_pabusy, tolerance,
                   wave_id, uploadVars, location, nodeVars, serverVars, guid,
                   responseVars,
                   walkVars,
                   apiVars,
                   execVars,
                   optionVars>>

\* cls._update_guid() in the except clause
DataSetUpdateGuid ==
    /\ op \in DataSetOps /\ pc = "fetch"
    /\ \E r \in GuidReplies :
         /\ log' = Append(log, Request("dataset/wrapper-guid", r))
         /\ IF IsOk(r)
            THEN /\ guid' = dict_get(r[2], "wrapperGuid")
                 /\ pc' = "call" /\ exc' = exc
            ELSE /\ guid' = guid
                 /\ pc' = "raised" /\ exc' = r[2]
    /\ UNCHANGED <<op, wait, script, fetches, sleeps, ignore_first_n_pabusy,
                   tolerance, wave_id, result, uploadVars, location,
                   nodeVars, serverVars,
                   responseVars,
                   walkVars,
                   apiVars,
                   execVars,
                   optionVars>>

(* ---------------- Project.unload ---------------- *)
\* for n in range(10)
UnloadAttempts == 10

\* an APIException out of API.request, with its message as a tuple of words
ApiError(message) == <<"raise", "APIException", message>>

\* str(e) of an APIException: f'{message} ({status_code}, {endpoint})'
ExcStr(r) == r[3] \o <<"(500,", "project/unload)">>

\* the phrase Project.unload looks for in str(e)
NotOpenedPhrase ==
    <<"has", "not", "been", "opened", "by", "user", "administrator">>

\* the server's answer for a project that is not in memory, and another error
NotOpened == ApiError(<<"The", "project">> \o NotOpenedPhrase)
OtherError == ApiError(<<"Access", "denied">>)

\* replies of project/unload
UnloadReplies == {Ok({}), Busy, NotOpened, OtherError}

\* mutant: the first busy answer is raised to the caller
UnloadOutcome_BusyRaised(r, n) ==
    IF IsOk(r) THEN "break"
    ELSE IF r = Busy THEN "raise"
    ELSE IF IsSubstring(NotOpenedPhrase, ExcStr(r)) /\ n # 0 THEN "break"
    ELSE "raise"

\* mutant: the 'not opened' answer ends the loop on the first attempt too
UnloadOutcome_AnyAttempt(r, n) ==
    IF IsOk(r) THEN "break"
    ELSE IF r = Busy THEN "continue"
    ELSE IF IsSubstring(NotOpenedPhrase, ExcStr(r)) THEN "break"
    ELSE "raise"

\* the body of the for loop on attempt n (from 0) answered by r
UnloadOutcome(r, n) ==
    IF IsOk(r) THEN "break"
    ELSE IF r = Busy THEN "continue"
    ELSE IF IsSubstring(NotOpenedPhrase, ExcStr(r)) /\ n # 0 THEN "break"
    ELSE "raise"

InitUnload ==
    /\ op = "unload"
    /\ pc = "call"
    /\ wait = FALSE
    /\ script = << >>
    /\ fetches = 0
    /\ sleeps = 0
    /\ tolerance = 0
    /\ ignore_first_n_pabusy = 0
    /\ wave_id = PyNone
    /\ location = NoResult
    /\ exc = "none"
    /\ result = NoResult
    /\ NoUpload
    /\ NoNodes
    /\ NoServer
    /\ NoRequests
    /\ NoResponse
    /\ NoWalk
    /\ NoApi
    /\ NoExec
    /\ NoOptions

\* one pass of the for loop: the project/unload request and its handling;
\* the pass that uses up range(10) runs into the else clause: raise PABusy
UnloadAttempt ==
    /\ op = "unload" /\ pc = "call"
    /\ Len(log) < UnloadAttempts
    /\ \E r \in UnloadReplies :
         LET n == Len(log)
             o == UnloadOutcome(r, n)
         IN /\ log' = Append(log, Request("project/unload", r))
            /\ sleeps' = IF o = "continue" THEN sleeps + 1 ELSE sleeps
            /\ CASE o = "break" ->
                      pc' = "done" /\ result' = Returned(PyNone) /\ exc' = exc
                 [] o = "raise" ->
                      pc' = "raised" /\ exc' = r[2] /\ result' = result
                 [] OTHER ->
                      IF n + 1 = UnloadAttempts
                      THEN pc' = "raised" /\ exc' = "PABusy" /\ result' = result
                      ELSE pc' = "call" /\ exc' = exc /\ result' = result
    /\ UNCHANGED <<op, wait, script, fetches, ignore_first_n_pabusy, tolerance,
                   wave_id, uploadVars, location, nodeVars, serverVars, guid,
                   responseVars,
                   walkVars,
                   apiVars,
                   execVars,
                   optionVars>>

(* ---------------- API._handle_response ---------------- *)
\* response bodies: their text as a tuple of words, and response.json() of
\* it, None when the body is no JSON
Body(text, json) == [text |-> text, json |-> json]

NotLoggedInBody == Body(<<"You", "are not logged in", "to PolyAnalyst">>, PyNone)
LimitedBody == Body(<<"Access to this", "operation is limited ", "to owners">>, PyNone)
HtmlBody == Body(<<"<html>", "Internal Server Error", "</html>">>, PyNone)
ErrorDictBody ==
    Body(<<"{error}">>,
         PyDict({<<"error", PyDict({<<"title", PyStr(<<"t">>)>>,
                                     <<"message", PyStr(<<"m">>)>>})>>}))
UntitledErrorBody ==
    Body(<<"{error}">>,
         PyDict({<<"error", PyDict({<<"message", PyStr(<<"m">>)>>})>>}))
PlainDictBody == Body(<<"{}">>, PyDict({}))
ErrorListBody == Body(<<"[Error]">>, PyList(<<PyStr(Error), PyStr(<<"m">>)>>))
EmptyListBody == Body(<<"[]">>, PyList(<< >>))

Bodies ==
    {NotLoggedInBody, LimitedBody, HtmlBody, ErrorDictBody, UntitledErrorBody,
     PlainDictBody, ErrorListBody, EmptyListBody}

StatusCodes == {200, 202, 204, 403, 404, 500}

\* a requests.Response
Responses == [status_code : StatusCodes, body : Bodies]

HandleOps == {"api.API._handle_response", "polyanalyst.API._handle_response"}

\* Response.raise_for_status raises HTTPError for 4xx and 5xx
IsHTTPError(status_code) == 400 <= status_code /\ status_code < 600

Unbound == <<"unbound">>

\* the json[0] == 'Error' test of the status 500 branch: json[0] of None is a
\* TypeError, of an empty list an IndexError, of a dict a KeyError
ErrorListMessage(json) ==
    CASE json = PyNone -> Raise("TypeError")
      [] json[1] = "dict" -> Raise("KeyError")
      [] json[1] = "list" /\ json[2] = << >> -> Raise("IndexError")
      [] json[1] = "list" /\ json[2][1] = PyStr(Error) -> Ok(json[2][2])
      [] OTHER -> Ok(Unbound)

\* api.py: what error_msg is bound to after the if/elif chain, Unbound when
\* no branch assigned it; an exception no clause suppresses is raised
error_msg(resp) ==
    LET json == resp.body.json
        text == resp.body.text
    IN IF json[1] = "dict" /\ dict_get(json[2], "error") # PyNone
       THEN IF dict_get(dict_get(json[2], "error")[2], "title") = PyNone
            THEN Ok(Unbound)
            ELSE Ok(PyStr(<<"title. Message: 'message'">>))
       ELSE IF resp.status_code = 403
       THEN IF IsSubstring(<<"are not logged in">>, text)
            THEN Ok(PyStr(<<"You are not logged in to PolyAnalyst Server">>))
            ELSE IF IsSubstring(<<"operation is limited ">>, text)
            THEN Ok(PyStr(<<"Access to this operation is limited">>))
            ELSE Ok(Unbound)
       ELSE IF resp.status_code = 500
       THEN LET m == ErrorListMessage(json) IN
            IF IsOk(m) THEN m
            ELSE IF m[2] \in {"IndexError", "TypeError"} THEN Ok(Unbound)
            ELSE m
       ELSE IF IsHTTPError(resp.status_code)
            THEN Ok(PyStr(<<"HTTPError">>))
            ELSE Ok(Unbound)

\* api.py API._handle_response: the value returned or the exception raised
handle_response_api(resp) ==
    IF resp.status_code \in {200, 202} THEN Ok(resp.body.json)
    ELSE LET m == error_msg(resp) IN
         IF ~IsOk(m) THEN m
         ELSE IF m[2] = Unbound THEN Ok(PyNone)
         ELSE Raise("APIException")

\* polyanalyst.py API._handle_response
handle_response_polyanalyst(resp) ==
    IF resp.status_code \in {200, 202} THEN Ok(resp.body.json)
    ELSE IF resp.status_code = 403 THEN Raise("APIException")
    ELSE IF /\ resp.status_code = 500
            /\ IsOk(ErrorListMessage(resp.body.json))
            /\ ErrorListMessage(resp.body.json)[2] # Unbound
         THEN Raise("APIException")
    ELSE IF IsHTTPError(resp.status_code) THEN Raise("APIException")
    ELSE Raise("ClientException")

InitHandleResponse ==
    /\ op \in HandleOps
    /\ pc = "call"
    /\ wait = FALSE
    /\ script = << >>
    /\ fetches = 0
    /\ sleeps = 0
    /\ tolerance = 0
    /\ ignore_first_n_pabusy = 0
    /\ wave_id = PyNone
    /\ location = NoResult
    /\ exc = "none"
    /\ result = NoResult
    /\ NoUpload
    /\ NoNodes
    /\ NoServer
    /\ NoRequests
    /\ response \in Responses
    /\ NoWalk
    /\ NoApi
    /\ NoExec
    /\ NoOptions

\* self._handle_response(resp)
HandleResponse ==
    /\ op \in HandleOps /\ pc = "call"
    /\ LET r == IF op = "api.API._handle_response"
                THEN handle_response_api(response)
                ELSE handle_response_polyanalyst(response) IN
       IF IsOk(r)
       THEN pc' = "done" /\ result' = Returned(r[2]) /\ exc' = exc
       ELSE pc' = "raised" /\ exc' = r[2] /\ result' = result
    /\ UNCHANGED <<op, wait, script, fetches, sleeps, ignore_first_n_pabusy,
                   tolerance, wave_id, uploadVars, location, laterVars>>

(* ---------------- Drive.upload ---------------- *)
\* a local tree: the path of source, and the folders and files at or under
\* it, each a path of names
Tree(root, dirs, files) == [root |-> root, dirs |-> dirs, files |-> files]

\* a source that does not exist, a single file, an empty folder, and a folder
\* with a file and a subfolder that holds a file
MissingSource == Tree(<<"d">>, {}, {})
SingleFile == Tree(<<"f">>, {}, {<<"f">>})
EmptyFolder == Tree(<<"d">>, {<<"d">>}, {})
NestedFolder ==
    Tree(<<"d">>, {<<"d">>, <<"d", "s">>}, {<<"d", "f">>, <<"d", "s", "g">>})

Trees == {MissingSource, SingleFile, EmptyFolder, NestedFolder}

Targets(t) == t.dirs \cup t.files

\* target.iterdir(): the entries directly under the folder at path
Children(t, path) ==
    {q \in Targets(t) :
        Len(q) = Len(path) + 1 /\ SubSeq(q, 1, Len(path)) = path}

\* iterdir yields the entries in arbitrary order
Orders(S) ==
    {o \in [1..Cardinality(S) -> S] :
        \A i, j \in 1..Cardinality(S) : i # j => o[i] # o[j]}

\* the phrase Drive.upload looks for in exc.message
FolderExistsPhrase == <<"Folder", "already", "exists">>

FolderExists == ApiError(<<"Error.", "Message:">> \o FolderExistsPhrase)

\* replies of folder/create for the folder at path
CreateFolderReplies(path) ==
    IF path \in remote_folders
    THEN {FolderExists, OtherError}
    ELSE {Ok({}), OtherError}

\* outcomes of self.upload_file(f, ...)
UploadFileReplies == {Ok({}), Raise("RequestException")}

\* mutant: every APIException of folder/create is re-raised
FolderTolerated_Never(r) == FALSE

\* except APIException as exc: if 'Folder already exists' in exc.message: pass
FolderTolerated(r) == IsSubstring(FolderExistsPhrase, r[3])

InitDriveUpload ==
    /\ op = "Drive.upload"
    /\ pc = "call"
    /\ wait = FALSE
    /\ script = << >>
    /\ fetches = 0
    /\ sleeps = 0
    /\ tolerance = 0
    /\ ignore_first_n_pabusy = 0
    /\ wave_id = PyNone
    /\ location = NoResult
    /\ exc = "none"
    /\ result = NoResult
    /\ NoUpload
    /\ NoNodes
    /\ NoServer
    /\ NoRequests
    /\ NoResponse
    /\ tree \in Trees
    /\ recursive \in BOOLEAN
    /\ todo = << >>
    /\ visited = {}
    /\ remote_folders = {}
    /\ calls = 0
    /\ NoApi
    /\ NoExec
    /\ NoOptions

\* the checks on source and the call _upload(source, dest); a second call
\* follows a first one that returned
DriveUploadBegin ==
    /\ op = "Drive.upload"
    /\ \/ pc = "call" /\ calls = 0
       \/ pc = "done" /\ calls = 1
    /\ calls' = calls + 1
    /\ visited' = {}
    /\ IF Targets(tree) = {}
       THEN pc' = "raised" /\ exc' = "ValueError" /\ todo' = todo
       ELSE pc' = "fetch" /\ exc' = exc /\ todo' = <<tree.root>>
    /\ UNCHANGED <<op, wait, script, fetches, sleeps, ignore_first_n_pabusy,
                   tolerance, wave_id, result, uploadVars, location,
                   nodeVars, serverVars, requestVars, responseVars,
                   tree, recursive, remote_folders,
                   apiVars,
                   execVars,
                   optionVars>>

\* _upload(target, dest_dir) for the next target: a file is uploaded, a
\* folder is created on the server and, if recursive, its entries are next
DriveUploadTarget ==
    /\ op = "Drive.upload" /\ pc = "fetch"
    /\ todo # << >>
    /\ LET target == Head(todo) IN
       /\ visited' = visited \cup {target}
       /\ IF target \in tree.files
          THEN \E r \in UploadFileReplies :
                 /\ log' = Append(log, Request(<<"file/upload", target>>, r))
                 /\ remote_folders' = remote_folders
                 /\ IF IsOk(r)
                    THEN /\ todo' = Tail(todo)
                         /\ pc' = IF Tail(todo) = << >> THEN "done" ELSE "fetch"
                         /\ exc' = exc
                    ELSE pc' = "raised" /\ exc' = r[2] /\ todo' = todo
          ELSE \E r \in CreateFolderReplies(target) :
                 /\ log' = Append(log, Request(<<"folder/create", target>>, r))
                 /\ remote_folders' = IF IsOk(r)
                                      THEN remote_folders \cup {target}
                                      ELSE remote_folders
                 /\ IF IsOk(r) \/ FolderTolerated(r)
                    THEN \E o \in Orders(IF recursive
                                         THEN Children(tree, target) ELSE {}) :
                           /\ todo' = o \o Tail(todo)
                           /\ pc' = IF o \o Tail(todo) = << >>
                                    THEN "done" ELSE "fetch"
                           /\ exc' = exc
                    ELSE pc' = "raised" /\ exc' = r[2] /\ todo' = todo
    /\ UNCHANGED <<op, wait, script, fetches, sleeps, ignore_first_n_pabusy,
                   tolerance, wave_id, result, uploadVars, location,
                   nodeVars, serverVars, guid, responseVars,
                   tree, recursive, calls,
                   apiVars,
                   execVars,
                   optionVars>>

(* ---------------- API: construction, login, logout ---------------- *)
\* an argument the caller did not pass
Absent == <<"absent">>

\* _valid_api_versions = ['1.0']
valid_api_versions == {PyStr(<<"1", ".", "0">>)}

\* the version argument: not passed, '1.0', '2.0', and the number 1
VersionArgs ==
    {Absent, PyStr(<<"1", ".", "0">>), PyStr(<<"2", ".", "0">>), PyInt(1)}

\* the url argument: a server address, and the empty string
UrlArgs == {PyStr(<<"https://localhost:5043">>), PyStr(EmptyStr)}

\* the value of the version parameter: its default is '1.0'
version_value(arg) == IF arg = Absent THEN PyStr(<<"1", ".", "0">>) ELSE arg

\* the warnings API.__init__ emits for a version argument: it emits none
init_warnings(arg) == << >>

\* replies of the login request: a response whose cookies carry a sid, one
\* without the cookie, and an error out of API.request
LoginReplies ==
    { Ok({<<"sid", PyStr(<<"a">>)>>}),
      Ok({<<"sid", PyStr(<<"b">>)>>}),
      Ok({}),
      Raise("APIException") }

InitApi ==
    /\ op = "API"
    /\ pc = "call"
    /\ wait = FALSE
    /\ script = << >>
    /\ fetches = 0
    /\ sleeps = 0
    /\ tolerance = 0
    /\ ignore_first_n_pabusy = 0
    /\ wave_id = PyNone
    /\ location = NoResult
    /\ exc = "none"
    /\ result = NoResult
    /\ NoUpload
    /\ NoNodes
    /\ NoServer
    /\ NoRequests
    /\ NoResponse
    /\ NoWalk
    /\ sid = PyNone
    /\ warned = << >>
    /\ version \in VersionArgs
    /\ url \in UrlArgs
    /\ NoExec
    /\ NoOptions

\* API.__init__: the checks on version and url, then self.sid = ''
ApiConstruct ==
    /\ op = "API" /\ pc = "call"
    /\ warned' = warned \o init_warnings(version)
    /\ IF version_value(version) \notin valid_api_versions \/ ~truthy(url)
       THEN pc' = "raised" /\ exc' = "ClientException" /\ sid' = sid
       ELSE pc' = "done" /\ exc' = exc /\ sid' = PyStr(EmptyStr)
    /\ UNCHANGED <<op, wait, script, fetches, sleeps, ignore_first_n_pabusy,
                   tolerance, wave_id, result, uploadVars, location,
                   nodeVars, serverVars, requestVars, responseVars, walkVars,
                   version, url,
                   execVars,
                   optionVars>>

\* API.login on the constructed object: self.sid = resp.cookies['sid']
ApiLogin ==
    /\ op = "API" /\ pc = "done"
    /\ Len(log) < MaxCalls
    /\ \E r \in LoginReplies :
         /\ log' = Append(log, Request("login", r))
         /\ IF ~IsOk(r)
            THEN exc' = r[2] /\ sid' = sid
            ELSE IF dict_get(r[2], "sid") = PyNone
                 THEN exc' = "KeyError" /\ sid' = sid
                 ELSE exc' = "none" /\ sid' = dict_get(r[2], "sid")
    /\ UNCHANGED <<op, pc, wait, script, fetches, sleeps,
                   ignore_first_n_pabusy, tolerance, wave_id, result,
                   uploadVars, location, nodeVars, serverVars, guid,
                   responseVars, walkVars, warned, version, url,
                   execVars,
                   optionVars>>

\* API.logout on the constructed object: the body is a docstring only
ApiLogout ==
    /\ op = "API" /\ pc = "done"
    /\ Len(log) < MaxCalls
    /\ log' = Append(log, Request("logout", Ok({})))
    /\ exc' = "none"
    /\ UNCHANGED <<op, pc, wait, script, fetches, sleeps,
                   ignore_first_n_pabusy, tolerance, wave_id, result,
                   uploadVars, location, nodeVars, serverVars, guid,
                   responseVars, walkVars, apiVars,
                   execVars,
                   optionVars>>

(* ---------------- specification ---------------- *)
(* ---------------- Parameters.set ---------------- *)
\* the parameters argument: one dictionary, or a list of dictionaries
ParametersArgs == {PyDict({}), PyList(<<PyDict({})>>)}

\* 'configure-array' if isinstance(parameters, list) else 'configure'
configure_method(parameters) ==
    IF parameters[1] = "list" THEN "parameters/configure-array"
    ELSE "parameters/configure"

\* the json content of the response of parameters/configure: the warnings
\* that Parameters.set returns
WarningLists == {PyNone, PyList(<<PyStr(<<"w">>)>>)}

InitParametersSet ==
    /\ op = "Parameters.set"
    /\ pc = "call"
    /\ wait \in BOOLEAN
    /\ script \in [1..MaxPolls -> IsRunningReplies]
    /\ fetches = 0
    /\ sleeps = 0
    /\ tolerance = 0
    /\ ignore_first_n_pabusy = 0
    /\ wave_id = PyNone
    /\ location = NoResult
    /\ exc = "none"
    /\ result = NoResult
    /\ NoUpload
    /\ NoLater

\* the parameters/configure request, the wave id of its response (a
\* TypeError is passed over and the warnings are returned), and the branch
\* on wait
ParametersSetStart ==
    /\ op = "Parameters.set" /\ pc = "call"
    /\ \E parameters \in ParametersArgs, r \in StartReplies(executionWave),
          json \in WarningLists :
         /\ log' = Append(log, Request(configure_method(parameters), r))
         /\ IF ~IsOk(r)
            THEN /\ pc' = "raised" /\ exc' = r[2]
                 /\ UNCHANGED <<location, wave_id, result, response>>
            ELSE /\ location' = r[2]
                 /\ response' = json
                 /\ LET w == execute_wave_id(r[2]) IN
                    IF ~IsOk(w)
                    THEN /\ pc' = "raised" /\ exc' = w[2]
                         /\ UNCHANGED <<wave_id, result>>
                    ELSE /\ wave_id' = w[2]
                         /\ exc' = exc
                         /\ IF w[2] # PyNone /\ wait
                            THEN pc' = WhileTest /\ result' = result
                            ELSE pc' = "done" /\ result' = Returned(json)
    /\ UNCHANGED <<op, wait, script, fetches, sleeps, ignore_first_n_pabusy,
                   tolerance, uploadVars, nodeVars, serverVars, guid,
                   walkVars, apiVars, execVars,
                   optionVars>>

\* the loop test: while self._prj.is_running(wave_id)
ParametersSetPoll ==
    /\ op = "Parameters.set" /\ pc = "fetch"
    /\ fetches < MaxPolls
    /\ fetches' = fetches + 1
    /\ LET r == request(script[fetches + 1]) IN
       IF IsOk(r)
       THEN IF is_running(r[2])
            THEN pc' = "sleep" /\ exc' = exc /\ result' = result
            ELSE pc' = "done" /\ exc' = exc /\ result' = Returned(response)
       ELSE pc' = "raised" /\ exc' = r[2] /\ result' = result
    /\ UNCHANGED <<op, wait, script, sleeps, ignore_first_n_pabusy, tolerance,
                   wave_id, uploadVars, location, laterVars>>

\* the loop body: time.sleep(1)
ParametersSetSleep ==
    /\ op = "Parameters.set" /\ pc = "sleep"
    /\ pc' = "fetch"
    /\ sleeps' = sleeps + 1
    /\ UNCHANGED <<op, wait, script, fetches, ignore_first_n_pabusy,
                   tolerance, wave_id, exc, result,
                   uploadVars, location, laterVars>>

Init ==
    \/ InitExecute \/ InitExport \/ InitLoad \/ InitUpload
    \/ InitFindNode \/ InitExecuteTo \/ InitWaitForCompletion
    \/ InitDataSet \/ InitUnload \/ InitHandleResponse
    \/ InitDriveUpload \/ InitApi \/ InitParametersSet

Next ==
    \/ ExecuteStart \/ ExecuteSleep \/ ExecutePoll
    \/ ServerFinishesNode \/ LegacyBegin \/ LegacyRefresh \/ LegacySleep
    \/ ExportStart \/ ExportSleep \/ ExportPoll
    \/ LoadStart \/ LoadSleep \/ LoadPoll
    \/ UploadCreate \/ UploadTransfer \/ UploadVerify \/ UploadTerminate
    \/ FindNode
    \/ ExecuteToStart \/ ExecuteToPoll \/ ExecuteToSleep
    \/ NodeSucceeds \/ NodeFails \/ WaveEnds
    \/ WaitBegin \/ WaitRefresh \/ WaitIsRunning \/ WaitSleep
    \/ DataSetRequest \/ DataSetUpdateGuid
    \/ UnloadAttempt
    \/ HandleResponse
    \/ DriveUploadBegin \/ DriveUploadTarget
    \/ ApiConstruct \/ ApiLogin \/ ApiLogout
    \/ ParametersSetStart \/ ParametersSetPoll \/ ParametersSetSleep

Spec == Init /\ [][Next]_vars

\* the client is one thread that keeps running: a step that can be taken is
FairSpec == Spec /\ WF_vars(Next)

(* ---------------- history read off the script ---------------- *)
\* the reply of the latest status fetch
LastReply == script[fetches]

\* busy replies among the first k replies
RECURSIVE BusyCount(_)
BusyCount(k) ==
    IF k = 0 THEN 0
    ELSE BusyCount(k - 1) + (IF script[k] = Busy THEN 1 ELSE 0)

\* the longest run of consecutive busy replies that ends at reply k
RECURSIVE BusyRun(_)
BusyRun(k) ==
    IF k = 0 \/ script[k] # Busy THEN 0 ELSE BusyRun(k - 1) + 1

\* the status endpoint answers busy exactly n times, then 'still running'
BusyThenRunning(n) ==
    /\ n + 1 <= Len(script)
    /\ \A i \in 1..n : script[i] = Busy
    /\ script[n + 1] = StillRunning

Polling == pc \in {"sleep", "fetch"}
Ended == pc \in {"done", "raised"}

(* ---------------- claims ---------------- *)

\* C1: when is-running answers busy exactly N times and then 'still
\* running', execute(wait=True) raises PABusy with ignore_first_n_pabusy =
\* N-1 and does not raise it with ignore_first_n_pabusy >= N.
C1_BusyToleranceBound ==
    \A n \in 1..(MaxPolls - 1) :
        (op = "execute" /\ wait /\ BusyThenRunning(n)) =>
            /\ (tolerance = n - 1 /\ (fetches >= n \/ Ended))
                   => exc = "PABusy"
            /\ (tolerance >= n /\ fetches <= n + 1) => exc # "PABusy"

C3_NoDanglingSession ==
    (op \in UploadOps /\ session_created /\ Ended) =>
        (committed = file_size \/ terminate_calls >= 1)

\* C4: for a file of size S > 0 whose offset query answered O, upload_file
\* issues no terminate call when O = S and exactly one when O # S.
C4_TerminateIffIncomplete ==
    (op \in UploadOps /\ file_size > 0 /\ pc = "done" /\ offset # PyNone) =>
        /\ offset = PyInt(file_size) => terminate_calls = 0
        /\ offset # PyInt(file_size) => terminate_calls = 1

C4_Witness ==
    /\ op \in UploadOps /\ file_size > 0 /\ pc = "done"
    /\ offset # PyNone /\ offset # PyInt(file_size)
    /\ terminate_calls = 1

Fetched(key, v) ==
    /\ wait /\ fetches >= 1
    /\ IsOk(LastReply) /\ dict_get(LastReply[2], key) = v

\* C6 as stated: a fetched 'Error' status ends the polling of export and of
\* load, and the payload is returned; nothing is raised.
C6_ErrorReturnedAsData ==
    (\/ op = "export" /\ Fetched("state", PyStr(Error))
     \/ op = "load" /\ Fetched("status", PyStr(Error)))
        => pc = "done" /\ exc = "none" /\ result = Returned(LastReply[2])

\* C6 amended: a fetched 'Error' status ends the polling of both; export
\* returns the payload and raises nothing, load raises ClientException and
\* returns nothing.
C6_ErrorEndsPolling ==
    /\ (op = "export" /\ Fetched("state", PyStr(Error)))
           => pc = "done" /\ exc = "none" /\ result = Returned(LastReply[2])
    /\ (op = "load" /\ Fetched("status", PyStr(Error)))
           => pc = "raised" /\ exc = "ClientException" /\ result = NoResult

C6_Witness ==
    /\ op = "load" /\ Fetched("status", PyStr(Error))
    /\ pc = "raised" /\ exc = "ClientException"

\* the first status fetch of export(wait=True) answered state v
FirstExportState(v) ==
    /\ op = "export" /\ wait /\ fetches >= 1
    /\ IsOk(script[1]) /\ dict_get(script[1][2], "state") = v

\* C7: when the first fetched export state is 'Exported' or 'Error', export
\* returns that payload after one fetch and fetches no more; when it is
\* 'Processing', export does not return it and fetches again: it does not
\* stay for ever with that one fetch made.
C7_ExportFirstFetch ==
    /\ []((FirstExportState(PyStr(Exported)) \/ FirstExportState(PyStr(Error)))
            => /\ pc = "done" /\ fetches = 1
               /\ result = Returned(script[1][2]))
    /\ []((FirstExportState(PyStr(Processing)) /\ fetches = 1)
            => Polling /\ result = NoResult)
    /\ <>[]~(FirstExportState(PyStr(Processing)) /\ fetches = 1)

C7_Witness ==
    /\ FirstExportState(PyStr(Processing)) /\ fetches = 2
    /\ script[2] = Ok({<<"state", PyStr(Exported)>>})
    /\ pc = "done" /\ result = Returned(script[2][2])

\* C8: a fetched export status {} is not terminal: export does not return
\* it and fetches again: it does not stay for ever in the sleep that follows
\* such a status, nor at a fetch it has come to.
C8_EmptyPayloadNotTerminal ==
    /\ []((op = "export" /\ wait /\ fetches >= 1 /\ LastReply = Ok({}))
            => Polling /\ result = NoResult /\ exc = "none")
    /\ <>[]~(/\ op = "export" /\ fetches < MaxPolls
              /\ \/ pc = "sleep" /\ fetches >= 1 /\ LastReply = Ok({})
                 \/ pc = "fetch")

C8_Witness ==
    /\ op = "export" /\ wait /\ fetches = 2
    /\ script[1] = Ok({}) /\ result = NoResult

\* a fetched load status whose 'status' is absent or empty
TransitionalLoadStatus ==
    /\ op = "load"
    /\ \/ Fetched("status", PyNone)
       \/ Fetched("status", PyStr(EmptyStr))

\* C9: load(wait=True) treats a fetched status whose 'status' is absent or
\* empty as still running: it goes on polling, returns nothing and raises
\* nothing.
C9_TransitionalStatusKeepsPolling ==
    TransitionalLoadStatus => Polling /\ result = NoResult /\ exc = "none"

\* C10 as stated: a fetched export state 'Cancelled' ends the polling and
\* the payload is returned, as for 'Exported' and 'Error'.
C10_CancelledIsTerminal ==
    (op = "export" /\ Fetched("state", PyStr(Cancelled)))
        => pc = "done" /\ result = Returned(LastReply[2])

\* C10 amended: export(wait=True) returns a payload only when its state is
\* 'Exported' or 'Error'; on 'Cancelled' it returns nothing and goes on
\* polling.
C10_OnlyExportedAndErrorTerminal ==
    /\ (op = "export" /\ Fetched("state", PyStr(Cancelled)))
           => Polling /\ result = NoResult /\ exc = "none"
    /\ (op = "export" /\ wait /\ pc = "done")
           => /\ result = Returned(LastReply[2])
              /\ dict_get(LastReply[2], "state")
                     \in {PyStr(Exported), PyStr(Error)}

C10_Witness ==
    /\ op = "export" /\ Fetched("state", PyStr(Cancelled))
    /\ pc = "sleep" /\ fetches < MaxPolls

\* C11: Project.execute takes the wave id from the Location header of the
\* start response: a query with executionWave=<integer n> gives n, and a
\* response without the header raises nothing and gives no wave id (None).
C11_WaveIdExtraction ==
    (op = "execute" /\ location # NoResult) =>
        /\ \A n \in 1..MaxWaveId :
               location = WaveLocation(DecimalStr(n)) => wave_id = PyInt(n)
        /\ location = WaveLocation(<<"4", "2">>) => wave_id = PyInt(42)
        /\ location = PyNone => wave_id = PyNone /\ exc = "none"
        /\ (location \in {PyNone, WaveLocation(<<"4", "2">>)} /\ ~wait)
               => pc = "done" /\ result = Returned(wave_id)

C11_Witness ==
    /\ op = "execute"
    /\ location = WaveLocation(<<"4", "2">>)
    /\ wave_id = PyInt(42)
    /\ pc = "done"

\* the query parameter that carries the operation id of a start response
IdParameter ==
    CASE op = "export" -> exportId
      [] op = "load" -> asyncOperationId
      [] OTHER -> executionWave

\* the start response came without the operation id: no Location header, or
\* a Location whose query lacks the parameter
NoOperationId ==
    /\ location # NoResult
    /\ parse_qs_values(url_query(location), IdParameter) = << >>

\* C12: for Project.execute_to, Project.load and Project.export a start
\* response with no Location header, or with a Location that lacks the
\* operation-id parameter, raises no exception.
C12_MissingLocationTolerated ==
    (op \in {"execute_to", "load", "export"} /\ NoOperationId) => exc = "none"

CompletedSuccessfully == srv_status = PyStr(synchronized) /\ ~srv_err

\* C14: Project.wait_for_completion(node, wave_id) returns True if the node
\* completed successfully (status 'synchronized', no error message) and False
\* otherwise, however the server's progress interleaves with the client's
\* node-list fetch and is-running check.
C14_ReturnTellsCompletion ==
    (op = "wait_for_completion" /\ pc = "done") =>
        (result = Returned(PyBool(TRUE)) <=> CompletedSuccessfully)

\* the first dataset/info request failed with the error the wrapper retries
\* on, and the guid refresh that followed went through
StaleThenRefreshed ==
    /\ Len(log) >= 2
    /\ ~IsOk(log[1][2]) /\ Retried(op, log[1][2][2], 1)
    /\ IsOk(log[2][2])

\* C15: when a DataSet request fails with the stale wrapper-guid error, the
\* guid is refreshed once and the request is re-issued once; a failure of the
\* re-issued request propagates; no invocation issues the request more than
\* twice.
C15_RetryOnce ==
    op \in DataSetOps =>
        /\ Cardinality(Issued("dataset/info")) <= 2
        /\ Cardinality(Issued("dataset/wrapper-guid")) <= 1
        /\ (StaleThenRefreshed /\ pc \in {"done", "raised"}) =>
               /\ Cardinality(Issued("dataset/info")) = 2
               /\ Cardinality(Issued("dataset/wrapper-guid")) = 1
               /\ guid = PyStr(<<"g">>)
               /\ Len(log) = 3
               /\ ~IsOk(log[3][2]) => pc = "raised" /\ exc = log[3][2][2]
               /\ IsOk(log[3][2]) => pc = "done"

C15_Witness ==
    /\ op = "DataSet.get_info"
    /\ pc = "raised"
    /\ Len(log) = 3
    /\ log[1][2] = Raise("_WrapperNotFound")
    /\ log[3][2] = Raise("_WrapperNotFound")
    /\ exc = "_WrapperNotFound"

\* every project/unload request so far was answered with PABusy
AllBusy == \A i \in 1..Len(log) : log[i][2] = Busy

\* C16: Project.unload issues at most 10 unload requests, issues none after
\* the first OK response, and raises PABusy exactly when all 10 attempts were
\* answered with PABusy.
C16_UnloadBounded ==
    op = "unload" =>
        /\ Cardinality(Issued("project/unload")) <= 10
        /\ Len(log) = Cardinality(Issued("project/unload"))
        /\ \A i \in 1..Len(log) :
               IsOk(log[i][2]) => i = Len(log) /\ pc = "done"
        /\ (pc = "raised" /\ exc = "PABusy") <=> (Len(log) = 10 /\ AllBusy)

C16_Witness ==
    /\ op = "unload"
    /\ Len(log) = 10
    /\ AllBusy
    /\ pc = "raised"
    /\ exc = "PABusy"

C18_ErrorStatusRaisesAPIException ==
    (op \in HandleOps /\ pc # "call" /\ response.status_code \notin {200, 202})
        => pc = "raised" /\ exc = "APIException"

\* a request of the verify phase failed with a network error
VerifyPhaseFailed ==
    \E i \in 1..Len(log) : log[i][2] = Raise("RequestException")

\* C19: when the offset query or the terminate call of upload_file's verify
\* phase fails with a network error, upload_file returns normally without
\* raising.
C19_VerifyErrorsSwallowed ==
    (op \in UploadOps /\ VerifyPhaseFailed) => pc = "done" /\ exc = "none"

C19_Witness ==
    /\ op \in UploadOps
    /\ Len(log) = 2
    /\ log[2] = Request("terminate", Raise("RequestException"))
    /\ terminate_calls = 1
    /\ pc = "done"

\* the targets still on the way of the walk
Pending == {todo[i] : i \in 1..Len(todo)}

\* the folders whose creation was answered 'Folder already exists' in this
\* call
AnsweredExists ==
    {t \in visited :
        \E i \in 1..Len(log) : log[i] = Request(<<"folder/create", t>>, FolderExists)}

\* C20: uploading the same local directory twice with Drive.upload completes
\* both times: a folder/create answered with an APIException whose message
\* contains 'Folder already exists' raises nothing, and the walk goes on into
\* that folder's children.
C20_ExistingFolderTolerated ==
    op = "Drive.upload" =>
        /\ (pc = "raised" /\ log # << >>) => log[Len(log)][2] # FolderExists
        /\ (recursive /\ pc # "raised") =>
               \A t \in AnsweredExists :
                   Children(tree, t) \subseteq visited \cup Pending
        /\ (recursive /\ pc = "done") => visited = Targets(tree)
        /\ pc = "raised" =>
               \/ exc = "ValueError" /\ tree = MissingSource
               \/ log[Len(log)][2] \in {OtherError, Raise("RequestException")}

C20_Witness ==
    /\ op = "Drive.upload"
    /\ calls = 2
    /\ pc = "done"
    /\ recursive
    /\ tree = NestedFolder
    /\ AnsweredExists = tree.dirs
    /\ visited = Targets(tree)

\* the first k status fetches were all answered 'still running'
AllStillRunning(k) == \A i \in 1..k : script[i] = StillRunning

\* C21: in Project.execute(wait=True) with a wave id, as long as every
\* is-running poll answers 'still running' the call does not return: after k
\* such polls it is still in the loop and a (k+1)-th poll is issued: it does
\* not stay for ever in the sleep that follows such a poll, nor at a poll it
\* has come to.
C21_StillRunningNeverEnds ==
    /\ [](( /\ op = "execute" /\ wait /\ wave_id # PyNone
            /\ location # NoResult /\ AllStillRunning(fetches))
              => Polling)
    /\ <>[]~(/\ op = "execute" /\ fetches < MaxPolls
              /\ \/ pc = "sleep" /\ AllStillRunning(fetches)
                 \/ pc = "fetch")

C21_Witness ==
    /\ op = "execute"
    /\ fetches = MaxPolls
    /\ AllStillRunning(MaxPolls)
    /\ pc = "sleep"

\* a transport error met one of the status fetches issued so far
TransportErrorAt(k) == script[k] = Raise("RequestException")

\* C22: a status fetch of the Project.execute(wait=True) loop that fails with
\* a transport error is raised to the caller as ClientException at once: no
\* further status fetch is issued and the busy budget is not spent on it.
C22_TransportErrorRaised ==
    (op = "execute" /\ fetches >= 1) =>
        /\ \A k \in 1..(fetches - 1) : ~TransportErrorAt(k)
        /\ TransportErrorAt(fetches) =>
               /\ pc = "raised"
               /\ exc = "ClientException"
               /\ ignore_first_n_pabusy = tolerance - BusyCount(fetches - 1)

C22_Witness ==
    /\ op = "execute"
    /\ fetches = 2
    /\ script[1] = Busy
    /\ TransportErrorAt(2)
    /\ pc = "raised"
    /\ exc = "ClientException"

\* a login call of the log went through and stored a session identity
LoggedIn(i) ==
    /\ log[i][1] = "login"
    /\ IsOk(log[i][2])
    /\ dict_get(log[i][2][2], "sid") # PyNone

\* C23: after login() has stored the session identity, logout() invalidates
\* it: once logout has returned the client no longer holds the sid obtained
\* at login.
C23_LogoutInvalidatesSid ==
    (op = "API" /\ Len(log) >= 2 /\ log[Len(log)][1] = "logout") =>
        \A i \in 1..(Len(log) - 1) :
            LoggedIn(i) => sid # dict_get(log[i][2][2], "sid")

\* C25: constructing API with an explicit version argument emits a
\* DeprecationWarning and still constructs the client; constructing it
\* without version emits no warning.
C25_VersionArgDeprecated ==
    (op = "API" /\ pc # "call" /\ truthy(url)) =>
        IF version = Absent
        THEN warned = << >>
        ELSE warned = <<"DeprecationWarning">> /\ pc = "done"

\* C24: every node reference passed to Project.execute is resolved against
\* the node list the server holds at that call, never against a list cached
\* earlier: arguments that the server's list resolves are the nodes of the
\* request.
C24_ResolvedAgainstServerList ==
    (op = "execute" /\ pc # "call" /\ IsOk(resolve(srv_nodes, args))) =>
        exec_nodes = resolve(srv_nodes, args)[2]

\* the start response of execute came without a wave id
NoWaveId ==
    /\ op = "execute"
    /\ location # NoResult
    /\ execute_wave_id(location) = Ok(PyNone)

\* the node the i-th request of the log waited for, as a place in exec_nodes
WaitedFor(i) == log[i][1][2]

\* C26: when the execute start response yields no wave id,
\* Project.execute(wait=True) never polls is-running: it waits for each node
\* passed, in argument order, by polling the node statuses, and then returns
\* None.
C26_LegacyBranchOnly ==
    (NoWaveId /\ wait) =>
        /\ fetches = 0
        /\ LegacyWaiting \/ Ended
        /\ exec_nodes = resolve(srv_nodes, args)[2]
        /\ \A i \in Refreshes :
               /\ WaitedFor(i) \in 1..Len(exec_nodes)
               /\ i = 2 => WaitedFor(i) = 1
               /\ i > 2 => \/ WaitedFor(i) = WaitedFor(i - 1)
                           \/ /\ WaitedFor(i) = WaitedFor(i - 1) + 1
                              /\ NodeVerdict(find_node(log[i - 1][2][2],
                                    exec_nodes[WaitedFor(i - 1)])[2]) # PyNone
        /\ pc = "done" =>
               /\ result = Returned(PyNone)
               /\ \A k \in 1..Len(exec_nodes) :
                      \E i \in Refreshes : WaitedFor(i) = k

C26_Witness ==
    /\ NoWaveId /\ wait
    /\ args = <<PyStr(<<"Y">>), PyStr(<<"X">>)>>
    /\ pc = "done"
    /\ waiting = 2
    /\ Cardinality(Refreshes) = 3
    /\ result = Returned(PyNone)

\* C29: Project.execute resolves every node argument before it sends the
\* execute request: when an argument matches no node of the project's node
\* list the call raises, no project/execute request is sent and no status
\* poll is issued.
C29_ResolveBeforeRequest ==
    (/\ op = "execute" /\ pc # "call"
     /\ \E k \in 1..Len(args) : ~IsOk(find_node(node_list, args[k]))) =>
        /\ pc = "raised"
        /\ exc = "APIException"
        /\ log = << >>
        /\ location = NoResult
        /\ fetches = 0

C29_Witness ==
    /\ op = "execute"
    /\ args = <<PyStr(<<"X">>), PyStr(<<"Y">>)>>
    /\ node_list = <<NodeX>>
    /\ pc = "raised"
    /\ exc = "APIException"
    /\ log = << >>

\* the calls that wait in a loop of sleeps and status fetches
SleepFirstOps == {"execute", "load", "export"}
TestFirstOps == {"execute_to", "Parameters.set"}

\* C27: in every wait loop (execute, execute_to, load, export and
\* Parameters.set) each status fetch is preceded by a sleep of one polling
\* interval: no status fetch is issued right after the start request.
C27_SleepBeforeEveryFetch ==
    (op \in SleepFirstOps \cup TestFirstOps /\ pc = "fetch") =>
        sleeps = fetches + 1

\* C27 as the code has it: execute, load and export sleep before every
\* status fetch; execute_to and Parameters.set issue their first status
\* fetch right after the start request and sleep before each later one.
C27_SleepFirstOrTestFirst ==
    /\ (op \in SleepFirstOps /\ pc = "fetch") => sleeps = fetches + 1
    /\ (op \in SleepFirstOps /\ pc = "sleep") => sleeps = fetches
    /\ (op \in TestFirstOps /\ pc = "fetch") => sleeps = fetches
    /\ (op \in TestFirstOps /\ pc = "sleep") => sleeps + 1 = fetches
    /\ (op \in TestFirstOps /\ fetches = 0) => sleeps = 0

C27_Witness ==
    /\ op = "Parameters.set"
    /\ pc = "fetch"
    /\ fetches = 2
    /\ sleeps = 2

\* the larger of two integers
Max(a, b) == IF a >= b THEN a ELSE b

\* the busy replies of the first k that the loop passed over without raising
Tolerated(k) == BusyCount(k) - (IF exc = "PABusy" THEN 1 ELSE 0)

C30_OptionsUnchanged ==
    (op = "export" /\ Ended) => options = caller_options
====
